---- MODULE Spec2Model ----
(***************************************************************************)
(* A model of the toad-mcp tool gateway (src/src/server.rs and the tool    *)
(* modules under src/src/tools/).                                          *)
(*                                                                         *)
(* The specifications share the variables:                                 *)
(*   Spec       the mutating handlers (switch_context, register_context,   *)
(*              tag_projects) and list_contexts running concurrently on    *)
(*              the blocking pool, one step per file access;               *)
(*   SpecQuery  list_projects applied to registry snapshots;               *)
(*   SpecTag    tag_projects calls served one after another;               *)
(*   SpecCompare  compare_projects applied to registry snapshots;          *)
(*   SpecStatus   get_git_status, list_branches and the filtered mode of   *)
(*              tag_projects applied to registry snapshots;                *)
(*   SpecSearch search_projects_by_dna applied to registry snapshots;      *)
(*   SpecContexts get_active_context and list_contexts applied to          *)
(*              configurations;                                            *)
(*   SpecErrors the outcomes of an offloaded closure and their             *)
(*              translation into protocol errors;                          *)
(*   SpecServer the process: startup, the transport loop, the router and   *)
(*              the handlers on the blocking pool (SpecServerLive adds     *)
(*              the fairness of the pool and of the response writes).      *)
(*                                                                         *)
(* Text is a sequence of one-character strings, so that to_lowercase,      *)
(* starts_with and contains are computed as the code computes them.        *)
(***************************************************************************)
EXTENDS Integers, Sequences, FiniteSets, TLC

VARIABLES
    cfgFile,        \* the persisted global configuration file
    tagFile,        \* the persisted tag registry file
    snapshot,       \* the project registry of the active context
    calls,          \* Spec, SpecServer: the calls in flight, one per slot
    lastCfgWriter,  \* Spec: the slot whose save wrote cfgFile last (0: none)
    cfg0,           \* Spec: cfgFile before any call
    tag0,           \* Spec: tagFile before any call
    last,           \* the call served last, with its result; SpecServer: the process
    nCalls          \* the number of calls served

vars == <<cfgFile, tagFile, snapshot, calls, lastCfgWriter, cfg0, tag0, last, nCalls>>

---------------------------------------------------------------------------
(* Bounds *)

MaxProjects == 2
MaxCalls == 2
MaxTagCalls == 2

---------------------------------------------------------------------------
(* Text *)

UpperChars == <<"A","B","C","D","E","F","G","H","I","J","K","L","M",
                "N","O","P","Q","R","S","T","U","V","W","X","Y","Z">>
LowerChars == <<"a","b","c","d","e","f","g","h","i","j","k","l","m",
                "n","o","p","q","r","s","t","u","v","w","x","y","z">>

LowerOf ==
    [c \in {UpperChars[i] : i \in 1..Len(UpperChars)} |->
        LowerChars[CHOOSE i \in 1..Len(UpperChars) : UpperChars[i] = c]]

to_lowercase_char(c) == IF c \in DOMAIN LowerOf THEN LowerOf[c] ELSE c

to_lowercase(s) == [i \in 1..Len(s) |-> to_lowercase_char(s[i])]

starts_with_hash(s) == Len(s) > 0 /\ s[1] = "#"

contains(s, q) ==
    \E i \in 0..(Len(s) - Len(q)) : SubSeq(s, i + 1, i + Len(q)) = q

\* Option<String>
None == [some |-> FALSE, v |-> <<>>]
Some(s) == [some |-> TRUE, v |-> s]

\* Option of a context name (context names are compared whole, never scanned)
NoName == [some |-> FALSE, v |-> ""]
SomeName(n) == [some |-> TRUE, v |-> n]

---------------------------------------------------------------------------
(* Errors *)

ToadError(kind, arg) == [kind |-> kind, arg |-> arg]

\* rmcp::model::ErrorCode::RESOURCE_NOT_FOUND, the code McpError::resource_not_found
\* gives its error
RESOURCE_NOT_FOUND == -32002

toad_error_to_mcp(err) ==
    CASE err.kind = "PathNotFound" ->
            [code |-> RESOURCE_NOT_FOUND, message |-> <<"Path not found: ", err.arg>>]
      [] err.kind = "ContextNotFound" ->
            [code |-> -32004, message |-> <<"Context '", err.arg, "' not found">>]
      [] err.kind = "Io" -> [code |-> -32002, message |-> err.arg]
      [] err.kind = "Serde" -> [code |-> -32003, message |-> err.arg]
      [] err.kind = "WorkspaceNotFound" ->
            [code |-> -32001, message |-> <<"Workspace not found">>]
      [] err.kind = "Other" -> [code |-> -32000, message |-> err.arg]
      [] err.kind = "Anyhow" -> [code |-> -32000, message |-> err.arg]
      [] OTHER -> [code |-> -32000, message |-> <<err.kind>>]

\* What a handler returns: CallToolResult::success(content) or an McpError
Success(content) == [ok |-> TRUE, code |-> 0, body |-> content]
Failure(err) ==
    [ok |-> FALSE, code |-> toad_error_to_mcp(err).code,
     body |-> toad_error_to_mcp(err).message]

\* No call yet
NoResult == [ok |-> FALSE, code |-> 1, body |-> <<>>]

---------------------------------------------------------------------------
(* Project records and registry snapshots *)

s_alpha == <<"a","l","p","h","a">>
s_beta == <<"b","e","t","a">>
s_Gamma == <<"G","a","m","m","a">>
s_core == <<"c","o","r","e">>
s_ui == <<"u","i">>
s_hash_backend == <<"#","b","a","c","k","e","n","d">>
s_hash_Backend == <<"#","B","a","c","k","e","n","d">>
s_hash_frontend == <<"#","f","r","o","n","t","e","n","d">>
s_backend == <<"b","a","c","k","e","n","d">>
s_go == <<"g","o">>
s_Go == <<"G","o">>
s_GO == <<"G","O">>
s_ts == <<"t","s">>
s_TS == <<"T","S">>
s_rust == <<"r","u","s","t">>
s_Active == <<"A","c","t","i","v","e">>
s_Cold == <<"C","o","l","d">>
s_Clean == <<"C","l","e","a","n">>
s_Dirty == <<"D","i","r","t","y">>

Project(name, tags, stack, activity, vcs_status, submodules) ==
    [name |-> name, tags |-> tags, stack |-> stack, activity |-> activity,
     vcs_status |-> vcs_status, submodules |-> submodules]

Submodule(name, stack) == [name |-> name, stack |-> stack]

P_alpha == Project(s_alpha, <<s_hash_backend>>, s_go, s_Active, s_Clean, <<>>)
P_beta == Project(s_beta, <<s_hash_frontend>>, s_ts, s_Cold, s_Dirty,
                  <<Submodule(s_ui, s_TS)>>)
P_Gamma == Project(s_Gamma, <<s_hash_Backend, s_go>>, s_Go, s_Active, s_Dirty, <<>>)
P_core == Project(s_core, <<>>, s_rust, s_Cold, s_Clean, <<>>)

ProjectUniverse == {P_alpha, P_beta, P_Gamma, P_core}

\* Registry snapshots: project names are unique within one snapshot
Snapshots ==
    {q \in UNION {[1..n -> ProjectUniverse] : n \in 0..MaxProjects} :
        \A i, j \in 1..Len(q) : i # j => q[i].name # q[j].name}

\* Workspace::discover() and ProjectRegistry::load(): the environment's answer
Workspaces == {"ok", "missing"}

---------------------------------------------------------------------------
(* list_projects *)

ListProjectsParams(query, tag, stack, activity, vcs_status) ==
    [query |-> query, tag |-> tag, stack |-> stack, activity |-> activity,
     vcs_status |-> vcs_status]

NoFilters == ListProjectsParams(None, None, None, None, None)

lower_opt(o) == IF o.some THEN Some(to_lowercase(o.v)) ELSE None

q_filter(params) == lower_opt(params.query)

\* t_filter over params.tag.unwrap_or_default(): an absent tag is the empty tag
t_filter_defaulted(params) ==
    Some(IF starts_with_hash(params.tag.v)
         THEN to_lowercase(params.tag.v)
         ELSE <<"#">> \o to_lowercase(params.tag.v))

\* t_filter without the injected marker
t_filter_as_given(params) == lower_opt(params.tag)

t_filter(params) ==
    IF params.tag.some
    THEN Some(IF starts_with_hash(params.tag.v)
              THEN to_lowercase(params.tag.v)
              ELSE <<"#">> \o to_lowercase(params.tag.v))
    ELSE None

s_filter(params) == lower_opt(params.stack)

a_filter(params) == lower_opt(params.activity)

v_filter(params) == lower_opt(params.vcs_status)

\* list_projects_keep keeping a project that passes any one filter
list_projects_keep_any(p, params) ==
    LET q == q_filter(params)
        t == t_filter(params)
        s == s_filter(params)
        a == a_filter(params)
        v == v_filter(params)
    IN \/ ~(q.some \/ t.some \/ s.some \/ a.some \/ v.some)
       \/ q.some /\ contains(to_lowercase(p.name), q.v)
       \/ t.some /\ (\E i \in 1..Len(p.tags) : to_lowercase(p.tags[i]) = t.v)
       \/ s.some /\ contains(to_lowercase(p.stack), s.v)
       \/ a.some /\ contains(to_lowercase(p.activity), a.v)
       \/ v.some /\ contains(to_lowercase(p.vcs_status), v.v)

\* The closure handed to .filter(): false at the first filter that fails
list_projects_keep(p, params) ==
    LET q == q_filter(params)
        t == t_filter(params)
        s == s_filter(params)
        a == a_filter(params)
        v == v_filter(params)
    IN IF q.some /\ ~contains(to_lowercase(p.name), q.v) THEN FALSE
       ELSE IF t.some /\ ~(\E i \in 1..Len(p.tags) : to_lowercase(p.tags[i]) = t.v)
       THEN FALSE
       ELSE IF s.some /\ ~contains(to_lowercase(p.stack), s.v) THEN FALSE
       ELSE IF a.some /\ ~contains(to_lowercase(p.activity), a.v) THEN FALSE
       ELSE IF v.some /\ ~contains(to_lowercase(p.vcs_status), v.v) THEN FALSE
       ELSE TRUE

list_projects_filtered(projects, params) ==
    LET keep(p) == list_projects_keep(p, params)
    IN SelectSeq(projects, keep)

\* The whole handler: the blocking closure and the translation of its error
list_projects(params, ws, projects) ==
    IF ws = "missing"
    THEN Failure(ToadError("WorkspaceNotFound", <<>>))
    ELSE Success(list_projects_filtered(projects, params))

QueryInputs == {None, Some(<<>>), Some(<<"a","l">>), Some(<<"A">>)}
TagInputs == {None, Some(<<>>), Some(s_backend), Some(s_hash_backend),
              Some(<<"B","a","c","k","E","n","d">>), Some(<<"#","F","R","O","N","T","E","N","D">>),
              Some(s_go)}
StackInputs == {None, Some(<<>>), Some(s_GO), Some(<<"s">>)}
ActivityInputs == {None, Some(<<>>), Some(<<"a","c","t">>)}
VcsInputs == {None, Some(<<>>), Some(<<"D","I","R">>)}

ListProjectsInputs ==
    {ListProjectsParams(q, t, s, a, v) :
        q \in QueryInputs, t \in TagInputs, s \in StackInputs,
        a \in ActivityInputs, v \in VcsInputs}

\* repeat: the call has the parameters of the successful call served before it
NoCall ==
    [kind |-> "none", params |-> <<>>, ws |-> "ok", result |-> NoResult,
     repeat |-> FALSE]

ListProjectsCall ==
    /\ nCalls = 0
    /\ nCalls' = 1
    /\ \E params \in ListProjectsInputs, ws \in Workspaces :
          last' = [kind |-> "list_projects", params |-> params, ws |-> ws,
                   result |-> list_projects(params, ws, snapshot), repeat |-> FALSE]
    /\ UNCHANGED <<cfgFile, tagFile, snapshot, calls, lastCfgWriter, cfg0, tag0>>

---------------------------------------------------------------------------
(* tag_projects *)

\* Option<bool>
NoBool == [some |-> FALSE, v |-> FALSE]
SomeBool(b) == [some |-> TRUE, v |-> b]

TagParams(project, tag, query, filter_tag, harvest) ==
    [project |-> project, tag |-> tag, query |-> query,
     filter_tag |-> filter_tag, harvest |-> harvest]

\* add_tag as a toggle: a tag already present is removed
add_tag_toggle(tag_reg, name, tag) ==
    IF <<name, tag>> \in tag_reg THEN tag_reg \ {<<name, tag>>}
    ELSE tag_reg \cup {<<name, tag>>}

\* The tag registry: the set of (project name, tag) pairs it holds
add_tag(tag_reg, name, tag) == tag_reg \cup {<<name, tag>>}

RECURSIVE add_tags(_, _)
\* One add_tag per target, in order
add_tags(tag_reg, pairs) ==
    IF pairs = <<>> THEN tag_reg
    ELSE add_tags(add_tag(tag_reg, Head(pairs)[1], Head(pairs)[2]), Tail(pairs))

\* harvest_targets without the submodules
harvest_targets_projects_only(projects) ==
    [i \in 1..Len(projects) |-> <<projects[i].name, to_lowercase(projects[i].stack)>>]

RECURSIVE harvest_targets(_)
\* Harvest mode: each project, then each of its submodules, with its stack tag
harvest_targets(projects) ==
    IF projects = <<>> THEN <<>>
    ELSE LET p == Head(projects)
         IN <<<<p.name, to_lowercase(p.stack)>>>>
            \o [i \in 1..Len(p.submodules) |->
                   <<p.submodules[i].name, to_lowercase(p.submodules[i].stack)>>]
            \o harvest_targets(Tail(projects))

\* Filtered mode: params.tag.or(params.project)
filtered_tag_name(params) == IF params.tag.some THEN params.tag ELSE params.project

filter_tag_target(t) == IF starts_with_hash(t) THEN t ELSE <<"#">> \o t

\* filtered_match keeping a project that passes either filter
filtered_match_either(p, params) ==
    LET name_match ==
            params.query.some
                /\ contains(to_lowercase(p.name), to_lowercase(params.query.v))
        tag_match ==
            params.filter_tag.some
                /\ \E i \in 1..Len(p.tags) :
                       to_lowercase(p.tags[i])
                           = to_lowercase(filter_tag_target(params.filter_tag.v))
    IN name_match \/ tag_match

filtered_match(p, params) ==
    LET name_match ==
            IF params.query.some
            THEN contains(to_lowercase(p.name), to_lowercase(params.query.v))
            ELSE TRUE
        tag_match ==
            IF params.filter_tag.some
            THEN \E i \in 1..Len(p.tags) :
                    to_lowercase(p.tags[i])
                        = to_lowercase(filter_tag_target(params.filter_tag.v))
            ELSE TRUE
    IN name_match /\ tag_match

filtered_targets(projects, params) ==
    LET keep(p) == filtered_match(p, params)
        matching == SelectSeq(projects, keep)
    IN [i \in 1..Len(matching) |-> <<matching[i].name, filtered_tag_name(params).v>>]

TagOutcome(tag_reg, saved, result) ==
    [tag_reg |-> tag_reg, saved |-> saved, result |-> result]

Tagged(n) == <<"Tagged ", ToString(n), " projects.">>

\* tag_and_save with the save placed before the add_tag calls
tag_and_save_early(tag_reg, targets) ==
    TagOutcome(tag_reg, TRUE, Success(Tagged(Len(targets))))

\* The tail of the closure: the add_tag calls, the one save and the count
tag_and_save(tag_reg, targets) ==
    TagOutcome(add_tags(tag_reg, targets), TRUE, Success(Tagged(Len(targets))))

\* tag_projects_closure with the filters looked at before harvest
tag_projects_closure_filters_first(params, tag_reg, projects) ==
    IF params.query.some \/ params.filter_tag.some
    THEN IF ~filtered_tag_name(params).some
         THEN TagOutcome(tag_reg, FALSE,
                  Failure(ToadError("Other", <<"Must provide a tag name to assign.">>)))
         ELSE LET targets == filtered_targets(projects, params)
              IN IF targets = <<>>
                 THEN TagOutcome(tag_reg, FALSE,
                          Success(<<"No projects found matching filters.">>))
                 ELSE tag_and_save(tag_reg, targets)
    ELSE IF params.harvest.some /\ params.harvest.v
    THEN tag_and_save(tag_reg, harvest_targets(projects))
    ELSE IF params.project.some
    THEN IF params.tag.some
         THEN tag_and_save(tag_reg, <<<<params.project.v, params.tag.v>>>>)
         ELSE TagOutcome(tag_reg, FALSE,
                  Failure(ToadError("Other", <<"Must provide a tag name.">>)))
    ELSE TagOutcome(tag_reg, FALSE,
             Failure(ToadError("Other", <<"Must provide a project name or use filters.">>)))

\* The blocking closure after its loads: tag_reg is the registry it loaded,
\* projects the snapshot. saved says whether tag_reg.save() was reached.
tag_projects_closure(params, tag_reg, projects) ==
    IF params.harvest.some /\ params.harvest.v
    THEN tag_and_save(tag_reg, harvest_targets(projects))
    ELSE IF params.query.some \/ params.filter_tag.some
    THEN IF ~filtered_tag_name(params).some
         THEN TagOutcome(tag_reg, FALSE,
                  Failure(ToadError("Other", <<"Must provide a tag name to assign.">>)))
         ELSE LET targets == filtered_targets(projects, params)
              IN IF targets = <<>>
                 THEN TagOutcome(tag_reg, FALSE,
                          Success(<<"No projects found matching filters.">>))
                 ELSE tag_and_save(tag_reg, targets)
    ELSE IF params.project.some
    THEN IF params.tag.some
         THEN tag_and_save(tag_reg, <<<<params.project.v, params.tag.v>>>>)
         ELSE TagOutcome(tag_reg, FALSE,
                  Failure(ToadError("Other", <<"Must provide a tag name.">>)))
    ELSE TagOutcome(tag_reg, FALSE,
             Failure(ToadError("Other", <<"Must provide a project name or use filters.">>)))

\* The whole handler over the persisted registry
tag_projects(params, ws, file, projects) ==
    IF ws = "missing"
    THEN TagOutcome(file, FALSE, Failure(ToadError("WorkspaceNotFound", <<>>)))
    ELSE tag_projects_closure(params, file, projects)

s_x == <<"x">>

TagProjectsInputs ==
    {TagParams(project, tag, query, filter_tag, harvest) :
        project \in {None, Some(s_alpha)},
        tag \in {None, Some(s_x)},
        query \in {None, Some(<<"A">>)},
        filter_tag \in {None, Some(s_backend)},
        harvest \in {NoBool, SomeBool(FALSE), SomeBool(TRUE)}}

TagFileInits == {{}, {<<s_alpha, s_rust>>, <<s_core, s_rust>>}}

TagProjectsCall ==
    /\ nCalls < MaxTagCalls
    /\ \E params \in TagProjectsInputs, ws \in Workspaces :
          LET out == tag_projects(params, ws, tagFile, snapshot)
          IN /\ tagFile' = IF out.saved THEN out.tag_reg ELSE tagFile
             /\ last' = [kind |-> "tag_projects", params |-> params, ws |-> ws,
                         result |-> out.result,
                         repeat |-> (last.kind = "tag_projects" /\ last.result.ok
                                     /\ last.params = params)]
    /\ nCalls' = nCalls + 1
    /\ UNCHANGED <<cfgFile, snapshot, calls, lastCfgWriter, cfg0, tag0>>

---------------------------------------------------------------------------
(* The file system seen by register_context: a path is the sequence of its   *)
(* components under the root.                                                *)

FsEntries ==
    {<<>>, <<"hub">>, <<"hub", ".gitmodules">>, <<"pond">>, <<"pond", "projects">>,
     <<"lab">>}

\* <<"ln">> is a symbolic link to <<"hub">>
FsLinks == {<<"ln">>}
FsLinkTarget(path) == <<"hub">>

exists(path) == path \in FsEntries

Parent(path) == IF path = <<>> THEN <<>> ELSE SubSeq(path, 1, Len(path) - 1)

RECURSIVE resolve(_, _)
\* fs::canonicalize: ".", ".." and links resolved, every component existing
resolve(done, rest) ==
    IF rest = <<>> THEN [ok |-> TRUE, path |-> done]
    ELSE IF Head(rest) = "." THEN resolve(done, Tail(rest))
    ELSE IF Head(rest) = ".." THEN resolve(Parent(done), Tail(rest))
    ELSE IF Append(done, Head(rest)) \in FsLinks
    THEN resolve(FsLinkTarget(Append(done, Head(rest))), Tail(rest))
    ELSE IF exists(Append(done, Head(rest)))
    THEN resolve(Append(done, Head(rest)), Tail(rest))
    ELSE [ok |-> FALSE, path |-> <<>>]

canonicalize(path) == resolve(<<>>, path)

detected_type(abs_path) ==
    IF exists(Append(abs_path, ".gitmodules")) THEN "Hub"
    ELSE IF exists(Append(abs_path, "projects")) THEN "Pond"
    ELSE "Generic"

---------------------------------------------------------------------------
(* The global configuration *)

ProjectContext(path, context_type) == [path |-> path, context_type |-> context_type]

GlobalConfig(project_contexts, active_context, budget) ==
    [project_contexts |-> project_contexts, active_context |-> active_context,
     budget |-> budget]

NoContexts == [n \in {} |-> ProjectContext(<<>>, "Generic")]

DefaultConfig == GlobalConfig(NoContexts, NoName, "default")

Missing == [exists |-> FALSE, v |-> DefaultConfig]
Present(config) == [exists |-> TRUE, v |-> config]

\* GlobalConfig::load(None)?.unwrap_or_default()
load_config(file) == IF file.exists THEN file.v ELSE DefaultConfig

insert_context(project_contexts, name, ctx) ==
    [n \in DOMAIN project_contexts \cup {name} |->
        IF n = name THEN ctx ELSE project_contexts[n]]

CfgFileInits ==
    {Missing,
     Present(GlobalConfig(insert_context(NoContexts, "a", ProjectContext(<<"lab">>, "Generic")),
                          SomeName("a"), "default")),
     Present(GlobalConfig(insert_context(
                              insert_context(NoContexts, "a",
                                             ProjectContext(<<"lab">>, "Generic")),
                              "b", ProjectContext(<<"hub">>, "Hub")),
                          NoName, "custom"))}

---------------------------------------------------------------------------
(* switch_context *)

\* switch_context_set on a fresh configuration: the contexts are dropped
switch_context_set_fresh(config, name) ==
    [project_contexts |-> [n \in {} |-> 0], active_context |-> SomeName(name),
     budget |-> config.budget]

\* switch_context_set that also puts the budget back to its default
switch_context_set_budget_reset(config, name) ==
    [config EXCEPT !.active_context = SomeName(name), !.budget = "default"]

\* config.active_context = Some(name.clone())
switch_context_set(config, name) == [config EXCEPT !.active_context = SomeName(name)]

\* switch_context_found with the check left out
switch_context_found_always(config, name) == TRUE

switch_context_found(config, name) == name \in DOMAIN config.project_contexts

---------------------------------------------------------------------------
(* register_context *)

RegisterOutcome(config, ready, result) ==
    [config |-> config, ready |-> ready, result |-> result]

\* context_path with the path kept as the caller gave it
context_path_as_given(path) == path

\* ProjectContext.path: abs_path, the canonicalized input
context_path(path) == canonicalize(path).path

\* config.project_contexts.insert(name, ctx), ctx built from abs_path
register_context_insert(config, name, path) ==
    [config EXCEPT !.project_contexts =
        insert_context(@, name,
            ProjectContext(context_path(path),
                           detected_type(canonicalize(path).path)))]

Registered(name, abs_path) ==
    <<"Context '", name, "' (", detected_type(abs_path), ") registered at ",
      ToString(abs_path)>>

\* The closure from after its load to before its save. dir_ok: whether
\* fs::create_dir_all of the context's storage succeeded.
register_context_prepare(config, name, path, dir_ok) ==
    IF ~canonicalize(path).ok
    THEN RegisterOutcome(config, FALSE, Failure(ToadError("Other", <<"Invalid path">>)))
    ELSE IF ~exists(canonicalize(path).path)
    THEN RegisterOutcome(config, FALSE,
             Failure(ToadError("Other", <<"Path does not exist">>)))
    ELSE IF name \in DOMAIN config.project_contexts
    THEN RegisterOutcome(config, FALSE,
             Failure(ToadError("Other", <<"Context '", name, "' already exists">>)))
    ELSE IF ~dir_ok
    THEN RegisterOutcome(register_context_insert(config, name, path),
             FALSE, Failure(ToadError("Io", <<"create_dir_all">>)))
    ELSE RegisterOutcome(register_context_insert(config, name, path),
             TRUE, Success(Registered(name, canonicalize(path).path)))

---------------------------------------------------------------------------
(* list_contexts *)

\* One entry per registered context. The code collects them in the map's
\* iteration order; the entries are kept as a set.
list_contexts_entries(config) ==
    LET active == IF config.active_context.some THEN config.active_context.v
                  ELSE "default"
    IN {[name |-> n, path |-> config.project_contexts[n].path,
         type |-> config.project_contexts[n].context_type,
         active |-> (n = active)] : n \in DOMAIN config.project_contexts}

---------------------------------------------------------------------------
(* Spec: the closures of concurrent calls on the blocking pool *)

Slots == 1..MaxCalls

NameInputs == {"a", "b", "c"}
PathInputs == {<<"ln">>, <<"pond", "..", "pond">>, <<"nope">>}

SwitchContextParams(name) == [name |-> name]
RegisterContextParams(name, path) == [name |-> name, path |-> path]

s_y == <<"y">>

ConcurrentTagInputs ==
    {TagParams(Some(s_alpha), Some(s_x), None, None, NoBool),
     TagParams(Some(s_beta), Some(s_y), None, None, NoBool),
     TagParams(None, Some(s_x), Some(<<"A">>), None, NoBool),
     TagParams(None, None, None, None, SomeBool(TRUE)),
     TagParams(None, None, None, None, NoBool)}

CallInputs ==
    {[kind |-> "switch_context", params |-> SwitchContextParams(n)] : n \in NameInputs}
    \cup {[kind |-> "register_context", params |-> RegisterContextParams(n, p)] :
             n \in NameInputs, p \in PathInputs}
    \cup {[kind |-> "list_contexts", params |-> <<>>]}
    \cup {[kind |-> "tag_projects", params |-> params] : params \in ConcurrentTagInputs}

IdleCall ==
    [kind |-> "none", params |-> <<>>, pc |-> "idle", config |-> DefaultConfig,
     tag_reg |-> {}, result |-> NoResult]

\* The transport loop hands the next call to the pool: spawn_blocking
Dispatch(c) ==
    /\ calls[c].pc = "idle"
    /\ \A d \in Slots : d < c => calls[d].pc # "idle"
    /\ \E call \in CallInputs :
          calls' = [calls EXCEPT ![c] =
                       [IdleCall EXCEPT !.kind = call.kind, !.params = call.params,
                                        !.pc = "start"]]
    /\ UNCHANGED <<cfgFile, tagFile, snapshot, lastCfgWriter, cfg0, tag0, last, nCalls>>

SwitchLoad(c) ==
    /\ calls[c].kind = "switch_context" /\ calls[c].pc = "start"
    /\ calls' = [calls EXCEPT ![c].config = load_config(cfgFile), ![c].pc = "loaded"]
    /\ UNCHANGED <<cfgFile, tagFile, snapshot, lastCfgWriter, cfg0, tag0, last, nCalls>>

SwitchCheck(c) ==
    /\ calls[c].kind = "switch_context" /\ calls[c].pc = "loaded"
    /\ calls' =
          IF switch_context_found(calls[c].config, calls[c].params.name)
          THEN [calls EXCEPT
                   ![c].config = switch_context_set(calls[c].config, calls[c].params.name),
                   ![c].pc = "ready"]
          ELSE [calls EXCEPT
                   ![c].pc = "done",
                   ![c].result = Failure(ToadError("ContextNotFound", calls[c].params.name))]
    /\ UNCHANGED <<cfgFile, tagFile, snapshot, lastCfgWriter, cfg0, tag0, last, nCalls>>

SwitchSave(c) ==
    /\ calls[c].kind = "switch_context" /\ calls[c].pc = "ready"
    /\ cfgFile' = Present(calls[c].config)
    /\ lastCfgWriter' = c
    /\ calls' = [calls EXCEPT
                    ![c].pc = "done",
                    ![c].result = Success(<<"Switched to context '",
                                            calls[c].params.name, "'">>)]
    /\ UNCHANGED <<tagFile, snapshot, cfg0, tag0, last, nCalls>>

RegisterLoad(c) ==
    /\ calls[c].kind = "register_context" /\ calls[c].pc = "start"
    /\ calls' = [calls EXCEPT ![c].config = load_config(cfgFile), ![c].pc = "loaded"]
    /\ UNCHANGED <<cfgFile, tagFile, snapshot, lastCfgWriter, cfg0, tag0, last, nCalls>>

RegisterPrepare(c) ==
    /\ calls[c].kind = "register_context" /\ calls[c].pc = "loaded"
    /\ \E dir_ok \in BOOLEAN :
          LET out == register_context_prepare(calls[c].config, calls[c].params.name,
                                              calls[c].params.path, dir_ok)
          IN calls' = [calls EXCEPT
                          ![c].config = out.config,
                          ![c].pc = IF out.ready THEN "ready" ELSE "done",
                          ![c].result = IF out.ready THEN NoResult ELSE out.result]
    /\ UNCHANGED <<cfgFile, tagFile, snapshot, lastCfgWriter, cfg0, tag0, last, nCalls>>

RegisterSave(c) ==
    /\ calls[c].kind = "register_context" /\ calls[c].pc = "ready"
    /\ cfgFile' = Present(calls[c].config)
    /\ lastCfgWriter' = c
    /\ calls' = [calls EXCEPT
                    ![c].pc = "done",
                    ![c].result =
                        Success(Registered(calls[c].params.name,
                                           canonicalize(calls[c].params.path).path))]
    /\ UNCHANGED <<tagFile, snapshot, cfg0, tag0, last, nCalls>>

ListContexts(c) ==
    /\ calls[c].kind = "list_contexts" /\ calls[c].pc = "start"
    /\ calls' = [calls EXCEPT
                    ![c].config = load_config(cfgFile),
                    ![c].pc = "done",
                    ![c].result = Success(list_contexts_entries(load_config(cfgFile)))]
    /\ UNCHANGED <<cfgFile, tagFile, snapshot, lastCfgWriter, cfg0, tag0, last, nCalls>>

\* Workspace::discover, TagRegistry::load and ProjectRegistry::load
TagLoad(c) ==
    /\ calls[c].kind = "tag_projects" /\ calls[c].pc = "start"
    /\ \E ws \in Workspaces :
          calls' =
             IF ws = "missing"
             THEN [calls EXCEPT
                      ![c].pc = "done",
                      ![c].result = Failure(ToadError("WorkspaceNotFound", <<>>))]
             ELSE [calls EXCEPT ![c].tag_reg = tagFile, ![c].pc = "loaded"]
    /\ UNCHANGED <<cfgFile, tagFile, snapshot, lastCfgWriter, cfg0, tag0, last, nCalls>>

\* The in-memory add_tag calls and the one save
TagRun(c) ==
    /\ calls[c].kind = "tag_projects" /\ calls[c].pc = "loaded"
    /\ LET out == tag_projects_closure(calls[c].params, calls[c].tag_reg, snapshot)
       IN /\ tagFile' = IF out.saved THEN out.tag_reg ELSE tagFile
          /\ calls' = [calls EXCEPT
                          ![c].tag_reg = out.tag_reg,
                          ![c].pc = "done",
                          ![c].result = out.result]
    /\ UNCHANGED <<cfgFile, snapshot, lastCfgWriter, cfg0, tag0, last, nCalls>>

Init ==
    /\ cfgFile \in CfgFileInits
    /\ tagFile \in TagFileInits
    /\ snapshot = <<P_alpha, P_beta>>
    /\ calls = [c \in Slots |-> IdleCall]
    /\ lastCfgWriter = 0
    /\ cfg0 = cfgFile
    /\ tag0 = tagFile
    /\ last = NoCall
    /\ nCalls = 0

Next ==
    \E c \in Slots :
        \/ Dispatch(c)
        \/ SwitchLoad(c)
        \/ SwitchCheck(c)
        \/ SwitchSave(c)
        \/ RegisterLoad(c)
        \/ RegisterPrepare(c)
        \/ RegisterSave(c)
        \/ ListContexts(c)
        \/ TagLoad(c)
        \/ TagRun(c)

Spec == Init /\ [][Next]_vars

---------------------------------------------------------------------------
(* SpecQuery: list_projects over every snapshot *)

InitQuery ==
    /\ cfgFile = Missing
    /\ tagFile = {}
    /\ snapshot \in Snapshots
    /\ calls = [c \in Slots |-> IdleCall]
    /\ lastCfgWriter = 0
    /\ cfg0 = cfgFile
    /\ tag0 = tagFile
    /\ last = NoCall
    /\ nCalls = 0

NextQuery == ListProjectsCall

SpecQuery == InitQuery /\ [][NextQuery]_vars

---------------------------------------------------------------------------
(* SpecTag: tag_projects calls one after another over an unchanged snapshot *)

InitTag ==
    /\ cfgFile = Missing
    /\ tagFile \in TagFileInits
    /\ snapshot \in Snapshots
    /\ calls = [c \in Slots |-> IdleCall]
    /\ lastCfgWriter = 0
    /\ cfg0 = cfgFile
    /\ tag0 = tagFile
    /\ last = NoCall
    /\ nCalls = 0

NextTag == TagProjectsCall

SpecTag == InitTag /\ [][NextTag]_vars

---------------------------------------------------------------------------
(* compare_projects *)

CompareProjectsParams(source, target) == [source |-> source, target |-> target]

\* registry.projects.iter().find(|p| p.name == name): the first index, 0 if none
find_project(projects, name) ==
    IF \E i \in 1..Len(projects) : projects[i].name = name
    THEN CHOOSE i \in 1..Len(projects) :
             /\ projects[i].name = name
             /\ \A j \in 1..(i - 1) : projects[j].name # name
    ELSE 0

\* compared: toad_ops::migration::compare_projects was invoked
CompareOutcome(result, compared) == [result |-> result, compared |-> compared]

SourceNotFound(source) == <<"Source project '">> \o source \o <<"' not found">>
TargetNotFound(target) == <<"Target project '">> \o target \o <<"' not found">>

\* The preflight report of the two projects, serialized
Preflight(proj_a, proj_b) == <<"preflight:">> \o proj_a.name \o <<"->">> \o proj_b.name

\* The blocking closure after its loads. serde_ok: whether to_string_pretty
\* of the report succeeded.
compare_projects_closure(params, projects, serde_ok) ==
    LET a == find_project(projects, params.source)
        b == find_project(projects, params.target)
    IN IF a = 0
       THEN CompareOutcome(Failure(ToadError("Other", SourceNotFound(params.source))), FALSE)
       ELSE IF b = 0
       THEN CompareOutcome(Failure(ToadError("Other", TargetNotFound(params.target))), FALSE)
       ELSE IF ~serde_ok
       THEN CompareOutcome(Failure(ToadError("Serde", <<"to_string_pretty">>)), TRUE)
       ELSE CompareOutcome(Success(Preflight(projects[a], projects[b])), TRUE)

\* The whole handler
compare_projects(params, ws, projects, serde_ok) ==
    IF ws = "missing"
    THEN CompareOutcome(Failure(ToadError("WorkspaceNotFound", <<>>)), FALSE)
    ELSE compare_projects_closure(params, projects, serde_ok)

s_missing == <<"m","i","s","s","i","n","g">>
s_Alpha == <<"A","l","p","h","a">>

ProjectNameInputs == {s_alpha, s_beta, s_Gamma, s_missing, s_Alpha}

CompareProjectsInputs ==
    {CompareProjectsParams(source, target) :
        source \in ProjectNameInputs, target \in ProjectNameInputs}

CompareProjectsCall ==
    /\ nCalls = 0
    /\ nCalls' = 1
    /\ \E params \in CompareProjectsInputs, ws \in Workspaces, serde_ok \in BOOLEAN :
          LET out == compare_projects(params, ws, snapshot, serde_ok)
          IN last' = [kind |-> "compare_projects", params |-> params, ws |-> ws,
                      result |-> out.result, compared |-> out.compared]
    /\ UNCHANGED <<cfgFile, tagFile, snapshot, calls, lastCfgWriter, cfg0, tag0>>

(* SpecCompare: compare_projects over every snapshot *)

InitCompare == InitQuery

NextCompare == CompareProjectsCall

SpecCompare == InitCompare /\ [][NextCompare]_vars

---------------------------------------------------------------------------
(* The offload of a handler's closure and the translation of its outcome *)

\* What spawn_blocking(closure).await yields: the closure's own result, or a
\* JoinError when the task panicked or was cancelled
Joined(closure_result) == [joined |-> TRUE, msg |-> <<>>, v |-> closure_result]
JoinError(msg) == [joined |-> FALSE, msg |-> msg, v |-> [ok |-> FALSE, content |-> <<>>, err |-> ToadError("Other", <<>>)]]

\* The closure's result: Ok(content) or Err(ToadError)
Ok(content) == [ok |-> TRUE, content |-> content, err |-> ToadError("Other", <<>>)]
Err(err) == [ok |-> FALSE, content |-> <<>>, err |-> err]

\* run_offloaded with the JoinError unwrapped: the handler's task panics and
\* returns no result
run_offloaded_unwrap(awaited) ==
    IF ~awaited.joined THEN NoResult
    ELSE IF ~awaited.v.ok THEN Failure(awaited.v.err)
    ELSE Success(awaited.v.content)

\* .await.map_err(|e| toad_error_to_mcp(ToadError::Other(e.to_string())))?
\*       .map_err(toad_error_to_mcp)?; Ok(CallToolResult::success(..))
run_offloaded(awaited) ==
    IF ~awaited.joined THEN Failure(ToadError("Other", awaited.msg))
    ELSE IF ~awaited.v.ok THEN Failure(awaited.v.err)
    ELSE Success(awaited.v.content)

ErrorKinds ==
    {"PathNotFound", "ContextNotFound", "Io", "Serde", "WorkspaceNotFound",
     "Other", "Anyhow", "Config", "Git"}
ErrorArgs == {<<"No such file or directory">>, <<"expected value at line 1">>}
JoinMessages == {<<"task 7 panicked">>, <<"task 7 was cancelled">>}

AwaitedInputs ==
    {Joined(Ok(<<"[]">>))}
    \cup {Joined(Err(ToadError(k, a))) : k \in ErrorKinds, a \in ErrorArgs}
    \cup {JoinError(m) : m \in JoinMessages}

NoAwaited == Joined(Ok(<<>>))

\* One handler call seen from its await: prev is the call answered before it
OffloadCall ==
    /\ nCalls < MaxCalls
    /\ nCalls' = nCalls + 1
    /\ \E awaited \in AwaitedInputs :
          last' = [kind |-> "offload", awaited |-> awaited,
                   result |-> run_offloaded(awaited),
                   prev |-> IF last.kind = "offload" THEN last.awaited ELSE NoAwaited,
                   prev_result |-> IF last.kind = "offload" THEN last.result ELSE NoResult]
    /\ UNCHANGED <<cfgFile, tagFile, snapshot, calls, lastCfgWriter, cfg0, tag0>>

(* SpecErrors: the outcomes of offloaded closures, two calls in a row *)

InitErrors ==
    /\ cfgFile = Missing
    /\ tagFile = {}
    /\ snapshot = <<P_alpha, P_beta>>
    /\ calls = [c \in Slots |-> IdleCall]
    /\ lastCfgWriter = 0
    /\ cfg0 = cfgFile
    /\ tag0 = tagFile
    /\ last = NoCall
    /\ nCalls = 0

NextErrors == OffloadCall

SpecErrors == InitErrors /\ [][NextErrors]_vars

---------------------------------------------------------------------------
(* get_git_status and list_branches *)

StatusParams(query, tag) == [query |-> query, tag |-> tag]
BranchesParams(query, tag, all) == [query |-> query, tag |-> tag, all |-> all]

\* The closure handed to .filter() in get_git_status
git_status_keep(p, params) ==
    IF params.query.some
       /\ ~contains(to_lowercase(p.name), to_lowercase(params.query.v))
    THEN FALSE
    ELSE IF params.tag.some
            /\ ~(\E i \in 1..Len(p.tags) :
                    to_lowercase(p.tags[i]) = to_lowercase(params.tag.v))
    THEN FALSE
    ELSE TRUE

git_status_targets(projects, params) ==
    LET keep(p) == git_status_keep(p, params)
    IN SelectSeq(projects, keep)

\* The closure handed to .filter() in list_branches
list_branches_keep(p, params) ==
    IF params.query.some
       /\ ~contains(to_lowercase(p.name), to_lowercase(params.query.v))
    THEN FALSE
    ELSE IF params.tag.some
            /\ ~(\E i \in 1..Len(p.tags) :
                    to_lowercase(p.tags[i]) = to_lowercase(params.tag.v))
    THEN FALSE
    ELSE TRUE

list_branches_targets(projects, params) ==
    LET keep(p) == list_branches_keep(p, params)
    IN SelectSeq(projects, keep)

\* The names of the projects of a selection, in order
RECURSIVE project_names(_)
project_names(projects) ==
    IF projects = <<>> THEN <<>>
    ELSE <<Head(projects).name>> \o project_names(Tail(projects))

\* A report over the selected projects, one line per project
RECURSIVE Report(_, _)
Report(label, projects) ==
    IF projects = <<>> THEN <<>>
    ELSE <<label>> \o Head(projects).name \o Report(label, Tail(projects))

StatusOutcome(result, targets) == [result |-> result, targets |-> targets]

NoProjectsFound == <<"No projects found matching filters.">>

\* The whole get_git_status. git_ok: whether toad_git::generate_multi_repo_status
\* succeeded.
get_git_status(params, ws, projects, git_ok) ==
    IF ws = "missing"
    THEN StatusOutcome(Failure(ToadError("WorkspaceNotFound", <<>>)), <<>>)
    ELSE LET targets == git_status_targets(projects, params)
         IN IF targets = <<>> THEN StatusOutcome(Success(NoProjectsFound), <<>>)
            ELSE IF ~git_ok
            THEN StatusOutcome(Failure(ToadError("Git", <<"git status">>)),
                               project_names(targets))
            ELSE StatusOutcome(Success(Report("status:", targets)), project_names(targets))

\* The whole list_branches. git_ok: whether listing the branches of every
\* target succeeded.
list_branches(params, ws, projects, git_ok) ==
    IF ws = "missing"
    THEN StatusOutcome(Failure(ToadError("WorkspaceNotFound", <<>>)), <<>>)
    ELSE LET targets == list_branches_targets(projects, params)
             label == IF params.all.some /\ params.all.v THEN "all branches:"
                      ELSE "local branches:"
         IN IF targets = <<>> THEN StatusOutcome(Success(NoProjectsFound), <<>>)
            ELSE IF ~git_ok
            THEN StatusOutcome(Failure(ToadError("Git", <<"git branch">>)),
                               project_names(targets))
            ELSE StatusOutcome(Success(Report(label, targets)), project_names(targets))

StatusTagInputs ==
    {None, Some(<<>>), Some(s_backend), Some(s_hash_backend),
     Some(<<"F","r","o","n","t","e","n","d">>), Some(<<"#","F","R","O","N","T","E","N","D">>)}

StatusInputs ==
    {StatusParams(query, tag) : query \in {None, Some(<<"A">>)}, tag \in StatusTagInputs}

BranchesInputs ==
    {BranchesParams(query, tag, all) :
        query \in {None, Some(<<"A">>)}, tag \in StatusTagInputs,
        all \in {NoBool, SomeBool(TRUE)}}

FilterTagInputs ==
    {TagParams(None, Some(s_x), query, Some(filter_tag), NoBool) :
        query \in {None, Some(<<"A">>)},
        filter_tag \in {s_backend, s_hash_backend, <<"F","r","o","n","t","e","n","d">>,
                        <<"#","F","R","O","N","T","E","N","D">>}}

GitStatusCall ==
    /\ nCalls = 0
    /\ nCalls' = 1
    /\ \E params \in StatusInputs, ws \in Workspaces, git_ok \in BOOLEAN :
          LET out == get_git_status(params, ws, snapshot, git_ok)
          IN last' = [kind |-> "get_git_status", params |-> params, ws |-> ws,
                      result |-> out.result, targets |-> out.targets]
    /\ UNCHANGED <<cfgFile, tagFile, snapshot, calls, lastCfgWriter, cfg0, tag0>>

ListBranchesCall ==
    /\ nCalls = 0
    /\ nCalls' = 1
    /\ \E params \in BranchesInputs, ws \in Workspaces, git_ok \in BOOLEAN :
          LET out == list_branches(params, ws, snapshot, git_ok)
          IN last' = [kind |-> "list_branches", params |-> params, ws |-> ws,
                      result |-> out.result, targets |-> out.targets]
    /\ UNCHANGED <<cfgFile, tagFile, snapshot, calls, lastCfgWriter, cfg0, tag0>>

\* tag_projects called with a filter_tag
TagFilterCall ==
    /\ nCalls = 0
    /\ nCalls' = 1
    /\ \E params \in FilterTagInputs, ws \in Workspaces :
          LET out == tag_projects(params, ws, tagFile, snapshot)
          IN /\ tagFile' = IF out.saved THEN out.tag_reg ELSE tagFile
             /\ last' = [kind |-> "tag_projects", params |-> params, ws |-> ws,
                         result |-> out.result,
                         targets |-> IF out.saved
                                     THEN [i \in 1..Len(filtered_targets(snapshot, params))
                                              |-> filtered_targets(snapshot, params)[i][1]]
                                     ELSE <<>>]
    /\ UNCHANGED <<cfgFile, snapshot, calls, lastCfgWriter, cfg0, tag0>>

(* SpecStatus: the handlers that select projects by a tag filter *)

InitStatus == InitQuery

NextStatus == GitStatusCall \/ ListBranchesCall \/ TagFilterCall

SpecStatus == InitStatus /\ [][NextStatus]_vars

---------------------------------------------------------------------------
(* The other read-only handlers *)

GetProjectDetailParams(name) == [name |-> name]
SearchProjectsParams(query, tag) == [query |-> query, tag |-> tag]
GetProjectStatsParams(query, tag) == [query |-> query, tag |-> tag]

\* The dna field of a project record: roles, capabilities, structural patterns
Dna(roles, capabilities, structural_patterns) ==
    [roles |-> roles, capabilities |-> capabilities,
     structural_patterns |-> structural_patterns]

project_dna(p) ==
    IF p.name = s_alpha THEN Dna(<<<<"A","P","I">>>>, <<<<"R","E","S","T">>>>, <<<<"a","s","y","n","c">>>>)
    ELSE IF p.name = s_beta THEN Dna(<<<<"U","I">>>>, <<>>, <<<<"S","P","A">>>>)
    ELSE Dna(<<>>, <<>>, <<>>)

ProjectNotFound(name) == <<"Project '">> \o name \o <<"' not found">>

\* A project record, serialized
Serialized(p) == <<"project:">> \o p.name \o <<"stack:">> \o p.stack

\* The get_project_detail closure after its loads. serde_ok: whether the
\* serialization succeeded; context_md: whether CONTEXT.md exists and was read.
get_project_detail(params, ws, projects, serde_ok, context_md) ==
    LET i == find_project(projects, params.name)
    IN IF ws = "missing" THEN Err(ToadError("WorkspaceNotFound", <<>>))
       ELSE IF i = 0 THEN Err(ToadError("Other", ProjectNotFound(params.name)))
       ELSE IF ~serde_ok THEN Err(ToadError("Serde", <<"to_value">>))
       ELSE IF context_md THEN Ok(Serialized(projects[i]) \o <<"context_md">>)
       ELSE Ok(Serialized(projects[i]))

\* A list of strings, serialized
RECURSIVE Joined_strings(_)
Joined_strings(list) ==
    IF list = <<>> THEN <<>> ELSE Head(list) \o <<",">> \o Joined_strings(Tail(list))

get_project_dna(params, ws, projects, serde_ok) ==
    LET i == find_project(projects, params.name)
    IN IF ws = "missing" THEN Err(ToadError("WorkspaceNotFound", <<>>))
       ELSE IF i = 0 THEN Err(ToadError("Other", ProjectNotFound(params.name)))
       ELSE IF ~serde_ok THEN Err(ToadError("Serde", <<"to_string_pretty">>))
       ELSE Ok(<<"roles:">> \o Joined_strings(project_dna(projects[i]).roles)
               \o <<"capabilities:">> \o Joined_strings(project_dna(projects[i]).capabilities)
               \o <<"structural_patterns:">>
               \o Joined_strings(project_dna(projects[i]).structural_patterns))

\* The closure handed to .filter() in search_projects_by_dna; query is lower-cased
dna_match(p, query) ==
    LET any(list) == \E k \in 1..Len(list) : contains(to_lowercase(list[k]), query)
    IN \/ any(project_dna(p).roles)
       \/ any(project_dna(p).capabilities)
       \/ any(project_dna(p).structural_patterns)

search_projects_by_dna(params, ws, projects, serde_ok) ==
    LET query == to_lowercase(params.query)
        keep(p) == dna_match(p, query)
    IN IF ws = "missing" THEN Err(ToadError("WorkspaceNotFound", <<>>))
       ELSE IF ~serde_ok THEN Err(ToadError("Serde", <<"to_string_pretty">>))
       ELSE Ok(Report("match:", SelectSeq(projects, keep)))

\* get_project_stats: the analytics collaborator's report over the snapshot
get_project_stats(params, ws, projects, serde_ok) ==
    IF ws = "missing" THEN Err(ToadError("WorkspaceNotFound", <<>>))
    ELSE IF ~serde_ok THEN Err(ToadError("Serde", <<"to_string_pretty">>))
    ELSE Ok(<<"analytics:", ToString(Len(projects))>>)

\* What a closure over the global configuration leaves: the file and its result
ConfigOutcome(file, r) == [file |-> file, r |-> r]

\* get_active_context with a config.save() after its load
get_active_context_saving(file, load_ok) ==
    IF ~load_ok THEN ConfigOutcome(file, Err(ToadError("Serde", <<"config.json">>)))
    ELSE LET config == load_config(file)
             active == IF config.active_context.some THEN config.active_context.v
                       ELSE "default"
         IN IF active \in DOMAIN config.project_contexts
            THEN ConfigOutcome(Present(config),
                     Ok(<<"name:", active,
                          "path:", ToString(config.project_contexts[active].path),
                          "type:", config.project_contexts[active].context_type>>))
            ELSE ConfigOutcome(Present(config),
                     Ok(<<"name:", active, "path:", "null", "type:", "null">>))

\* get_active_context failing when the active name is not registered
get_active_context_strict(file, load_ok) ==
    IF ~load_ok THEN ConfigOutcome(file, Err(ToadError("Serde", <<"config.json">>)))
    ELSE LET config == load_config(file)
             active == IF config.active_context.some THEN config.active_context.v
                       ELSE "default"
         IN IF active \in DOMAIN config.project_contexts
            THEN ConfigOutcome(file,
                     Ok(<<"name:", active,
                          "path:", ToString(config.project_contexts[active].path),
                          "type:", config.project_contexts[active].context_type>>))
            ELSE ConfigOutcome(file, Err(ToadError("ContextNotFound", active)))

\* The get_active_context closure. load_ok: whether GlobalConfig::load succeeded.
get_active_context(file, load_ok) ==
    IF ~load_ok THEN ConfigOutcome(file, Err(ToadError("Serde", <<"config.json">>)))
    ELSE LET config == load_config(file)
             active == IF config.active_context.some THEN config.active_context.v
                       ELSE "default"
         IN IF active \in DOMAIN config.project_contexts
            THEN ConfigOutcome(file,
                     Ok(<<"name:", active,
                          "path:", ToString(config.project_contexts[active].path),
                          "type:", config.project_contexts[active].context_type>>))
            ELSE ConfigOutcome(file, Ok(<<"name:", active, "path:", "null", "type:", "null">>))

\* The entries of list_contexts, serialized in the order of the names
RECURSIVE SerializedContexts(_, _)
SerializedContexts(entries, names) ==
    IF names = <<>> THEN <<>>
    ELSE LET e == {x \in entries : x.name = Head(names)}
         IN (IF e = {} THEN <<>>
             ELSE LET x == CHOOSE x \in e : TRUE
                  IN <<x.name, ToString(x.path), x.type,
                       IF x.active THEN "active" ELSE "inactive">>)
            \o SerializedContexts(entries, Tail(names))

\* The list_contexts closure
list_contexts(file, load_ok) ==
    IF ~load_ok THEN Err(ToadError("Serde", <<"config.json">>))
    ELSE Ok(SerializedContexts(list_contexts_entries(load_config(file)),
                               <<"a", "b", "c", "default">>))

\* The switch_context closure: load, check, set, save
switch_context(params, file, load_ok) ==
    IF ~load_ok THEN ConfigOutcome(file, Err(ToadError("Serde", <<"config.json">>)))
    ELSE IF ~switch_context_found(load_config(file), params.name)
    THEN ConfigOutcome(file, Err(ToadError("ContextNotFound", params.name)))
    ELSE ConfigOutcome(Present(switch_context_set(load_config(file), params.name)),
                       Ok(<<"Switched to context '", params.name, "'">>))

---------------------------------------------------------------------------
(* The gateway: startup, the transport loop, the router and the pool *)

\* Self::tool_router() without the route of get_atlas
tool_router_without_get_atlas ==
    <<"list_projects", "get_project_detail", "get_project_dna", "compare_projects",
      "search_projects_by_dna", "search_projects", "get_ecosystem_summary",
      "get_ecosystem_status", "get_project_stats", "get_active_context",
      "list_contexts", "switch_context", "get_manifest",
      "get_project_context", "reveal_projects", "get_git_status", "get_disk_stats",
      "list_branches", "sync_registry", "generate_manifest", "register_context",
      "tag_projects">>

\* Self::tool_router(): one route per #[tool] function, in declaration order
tool_router ==
    <<"list_projects", "get_project_detail", "get_project_dna", "compare_projects",
      "search_projects_by_dna", "search_projects", "get_ecosystem_summary",
      "get_ecosystem_status", "get_project_stats", "get_active_context",
      "list_contexts", "switch_context", "get_atlas", "get_manifest",
      "get_project_context", "reveal_projects", "get_git_status", "get_disk_stats",
      "list_branches", "sync_registry", "generate_manifest", "register_context",
      "tag_projects">>

ToolNames(router) == {router[i] : i \in 1..Len(router)}

\* Tool names as a caller may spell them, folded to lower case
FoldedName(name) == IF name = "Switch_Context" THEN "switch_context" ELSE name

\* route with the name matched ignoring case
route_ignoring_case(router, name) ==
    IF FoldedName(name) \in ToolNames(router) THEN FoldedName(name) ELSE "none"

\* The router's lookup of a called name: the handler's name, "none" if unknown
route(router, name) == IF name \in ToolNames(router) THEN name ELSE "none"

\* rmcp::model::ErrorCode::INVALID_PARAMS, the code of the router's error for a
\* name it does not hold
INVALID_PARAMS == -32602

ToolNotFound == [ok |-> FALSE, code |-> INVALID_PARAMS, body |-> <<"tool not found">>]

\* The process: phase is the point main has reached
Process(phase, discovered, exit_code, diagnostic, transport, router, responses) ==
    [kind |-> "process", phase |-> phase, discovered |-> discovered,
     exit_code |-> exit_code, diagnostic |-> diagnostic, transport |-> transport,
     tool_router |-> router, responses |-> responses]

NotStarted == Process("start", "unknown", 0, FALSE, "unopened", <<>>, <<>>)

\* main with the failure of ToadService::new ignored
startup_lenient(ws) == Process("opened", ws, 0, FALSE, "open", tool_router, <<>>)

\* main up to the opening of the transport: ToadService::new(), then either
\* the diagnostic and exit(1) or the transport over stdin and stdout
startup(ws) ==
    IF ws = "missing"
    THEN Process("exited", ws, 1, TRUE, "unopened", <<>>, <<>>)
    ELSE Process("opened", ws, 0, FALSE, "open", tool_router, <<>>)

\* A handler that runs its body on the loop's own task
offloaded_except_git(tool) == tool \notin {"get_git_status", "list_branches"}

\* Whether the handler runs its body inside spawn_blocking
offloaded(tool) == TRUE

ReadOnlyTools ==
    {"list_projects", "get_project_detail", "get_project_dna", "compare_projects",
     "search_projects_by_dna", "get_project_stats", "get_active_context",
     "list_contexts", "get_git_status", "list_branches"}

Request(method, name, params) == [method |-> method, name |-> name, params |-> params]

RequestInputs ==
    {Request("tools/list", "none", <<>>),
     Request("tools/call", "no_such_tool", <<>>),
     Request("tools/call", "Switch_Context", SwitchContextParams("b")),
     Request("tools/call", "list_projects", NoFilters),
     Request("tools/call", "get_project_detail", GetProjectDetailParams(s_alpha)),
     Request("tools/call", "get_project_detail", GetProjectDetailParams(s_missing)),
     Request("tools/call", "get_project_dna", GetProjectDetailParams(s_alpha)),
     Request("tools/call", "compare_projects", CompareProjectsParams(s_alpha, s_beta)),
     Request("tools/call", "search_projects_by_dna",
             SearchProjectsParams(<<"a","p","i">>, None)),
     Request("tools/call", "get_project_stats", GetProjectStatsParams(None, None)),
     Request("tools/call", "get_active_context", <<>>),
     Request("tools/call", "list_contexts", <<>>),
     Request("tools/call", "get_git_status", StatusParams(None, Some(s_hash_backend))),
     Request("tools/call", "list_branches", BranchesParams(None, None, NoBool)),
     Request("tools/call", "switch_context", SwitchContextParams("b")),
     Request("tools/call", "switch_context", SwitchContextParams("c")),
     Request("tools/call", "tag_projects",
             TagParams(Some(s_alpha), Some(s_x), None, None, NoBool))}

\* What the environment does to one closure: the workspace it discovers,
\* whether its loads, collaborators and serializations succeed, whether it panics
Env(ws, ok, panic) == [ws |-> ws, ok |-> ok, panic |-> panic]

EnvInputs ==
    {Env("ok", TRUE, FALSE), Env("missing", TRUE, FALSE), Env("ok", FALSE, FALSE),
     Env("ok", TRUE, TRUE)}

IdleRequest ==
    [method |-> "none", name |-> "none", kind |-> "none", params |-> <<>>,
     pc |-> "idle", result |-> NoResult]

\* What a closure leaves: the two files and the handler's result
Effect(cfg, tags, result) == [cfg |-> cfg, tags |-> tags, result |-> result]


\* One handler call, from its spawn_blocking to the result it returns
handle(call, env, cfg, tags, projects) ==
    IF env.panic
    THEN Effect(cfg, tags, run_offloaded(JoinError(<<"task 7 panicked">>)))
    ELSE CASE call.kind = "list_projects" ->
                LET r == list_projects(call.params, env.ws, projects)
                IN Effect(cfg, tags,
                       IF r.ok THEN Success(Report("project:", r.body)) ELSE r)
           [] call.kind = "get_project_detail" ->
                Effect(cfg, tags,
                    run_offloaded(Joined(get_project_detail(call.params, env.ws, projects,
                                                            env.ok, TRUE))))
           [] call.kind = "get_project_dna" ->
                Effect(cfg, tags,
                    run_offloaded(Joined(get_project_dna(call.params, env.ws, projects,
                                                         env.ok))))
           [] call.kind = "compare_projects" ->
                Effect(cfg, tags,
                    compare_projects(call.params, env.ws, projects, env.ok).result)
           [] call.kind = "search_projects_by_dna" ->
                Effect(cfg, tags,
                    run_offloaded(Joined(search_projects_by_dna(call.params, env.ws,
                                                                projects, env.ok))))
           [] call.kind = "get_project_stats" ->
                Effect(cfg, tags,
                    run_offloaded(Joined(get_project_stats(call.params, env.ws, projects,
                                                           env.ok))))
           [] call.kind = "get_active_context" ->
                Effect(get_active_context(cfg, env.ok).file, tags,
                    run_offloaded(Joined(get_active_context(cfg, env.ok).r)))
           [] call.kind = "list_contexts" ->
                Effect(cfg, tags, run_offloaded(Joined(list_contexts(cfg, env.ok))))
           [] call.kind = "get_git_status" ->
                Effect(cfg, tags,
                    get_git_status(call.params, env.ws, projects, env.ok).result)
           [] call.kind = "list_branches" ->
                Effect(cfg, tags,
                    list_branches(call.params, env.ws, projects, env.ok).result)
           [] call.kind = "switch_context" ->
                Effect(switch_context(call.params, cfg, env.ok).file, tags,
                    run_offloaded(Joined(switch_context(call.params, cfg, env.ok).r)))
           [] call.kind = "tag_projects" ->
                LET out == tag_projects(call.params, env.ws, tags, projects)
                IN Effect(cfg, IF out.saved THEN out.tag_reg ELSE tags, out.result)

\* main: ToadService::new() and the opening of the transport, or exit(1)
Startup ==
    /\ last.phase = "start"
    /\ \E ws \in Workspaces : last' = startup(ws)
    /\ UNCHANGED <<cfgFile, tagFile, snapshot, calls, lastCfgWriter, cfg0, tag0, nCalls>>

\* service.serve(transport): the initialize handshake
Initialize ==
    /\ last.phase = "opened"
    /\ last' = [last EXCEPT !.phase = "serving"]
    /\ UNCHANGED <<cfgFile, tagFile, snapshot, calls, lastCfgWriter, cfg0, tag0, nCalls>>

\* The loop is free: no handler body is running on the loop's own task
LoopFree == \A d \in Slots : calls[d].pc = "start" => offloaded(calls[d].kind)

\* The loop reads the next request, with identifier c. tools/list is answered
\* from the router; a call is routed: an unknown name is answered at once, a
\* known one starts its handler.
Receive(c) ==
    /\ last.phase = "serving"
    /\ LoopFree
    /\ calls[c].pc = "idle"
    /\ \A d \in Slots : d < c => calls[d].pc # "idle"
    /\ \E req \in RequestInputs :
          LET kind == IF req.method = "tools/list" THEN "tools/list"
                      ELSE route(last.tool_router, req.name)
          IN calls' = [calls EXCEPT ![c] =
                [method |-> req.method, name |-> req.name, kind |-> kind,
                 params |-> req.params,
                 pc |-> IF kind \in {"tools/list", "none"} THEN "done" ELSE "start",
                 result |-> IF kind = "tools/list" THEN Success(last.tool_router)
                            ELSE IF kind = "none" THEN ToolNotFound
                            ELSE NoResult]]
    /\ nCalls' = nCalls + 1
    /\ UNCHANGED <<cfgFile, tagFile, snapshot, lastCfgWriter, cfg0, tag0, last>>

\* The handler of call c runs to its result
Run(c) ==
    /\ last.phase = "serving"
    /\ calls[c].pc = "start"
    /\ \E env \in EnvInputs :
          LET out == handle(calls[c], env, cfgFile, tagFile, snapshot)
          IN /\ cfgFile' = out.cfg
             /\ tagFile' = out.tags
             /\ calls' = [calls EXCEPT ![c].pc = "done", ![c].result = out.result]
    /\ UNCHANGED <<snapshot, lastCfgWriter, cfg0, tag0, last, nCalls>>

\* The response of call c is written, under the identifier of its request
Respond(c) ==
    /\ last.phase = "serving"
    /\ LoopFree
    /\ calls[c].pc = "done"
    /\ calls[c].result # NoResult
    /\ last' = [last EXCEPT !.responses = Append(@, [id |-> c, result |-> calls[c].result])]
    /\ calls' = [calls EXCEPT ![c].pc = "sent"]
    /\ UNCHANGED <<cfgFile, tagFile, snapshot, lastCfgWriter, cfg0, tag0, nCalls>>

\* The caller closes stdin once its calls are answered: server.waiting() returns
TransportClosed ==
    /\ last.phase = "serving"
    /\ \A c \in Slots : calls[c].pc \in {"idle", "sent"}
    /\ last' = [last EXCEPT !.phase = "exited", !.transport = "closed"]
    /\ UNCHANGED <<cfgFile, tagFile, snapshot, calls, lastCfgWriter, cfg0, tag0, nCalls>>

InitServer ==
    /\ cfgFile \in CfgFileInits
    /\ tagFile = {}
    /\ snapshot = <<P_alpha, P_beta>>
    /\ calls = [c \in Slots |-> IdleRequest]
    /\ lastCfgWriter = 0
    /\ cfg0 = cfgFile
    /\ tag0 = tagFile
    /\ last = NotStarted
    /\ nCalls = 0

NextServer ==
    \/ Startup
    \/ Initialize
    \/ TransportClosed
    \/ \E c \in Slots : Receive(c) \/ Run(c) \/ Respond(c)

SpecServer == InitServer /\ [][NextServer]_vars

\* The pool runs every closure handed to it, and the loop writes every result
ServerFairness ==
    /\ WF_vars(Initialize)
    /\ \A c \in Slots : WF_vars(Run(c)) /\ WF_vars(Respond(c))

SpecServerLive == SpecServer /\ ServerFairness

---------------------------------------------------------------------------
(* search_projects_by_dna applied to registry snapshots *)

SearchQueryInputs == {<<"a","p","i">>, <<"U","I">>, <<"s">>, <<>>}
SearchTagInputs == {None, Some(s_backend), Some(s_hash_frontend)}

SearchProjectsInputs ==
    {SearchProjectsParams(query, tag) :
        query \in SearchQueryInputs, tag \in SearchTagInputs}

SearchByDnaCall ==
    /\ nCalls = 0
    /\ nCalls' = 1
    /\ \E params \in SearchProjectsInputs, ws \in Workspaces, serde_ok \in BOOLEAN :
          last' = [kind |-> "search_projects_by_dna", params |-> params, ws |-> ws,
                   serde_ok |-> serde_ok,
                   result |-> run_offloaded(Joined(
                       search_projects_by_dna(params, ws, snapshot, serde_ok)))]
    /\ UNCHANGED <<cfgFile, tagFile, snapshot, calls, lastCfgWriter, cfg0, tag0>>

InitSearch == InitQuery

NextSearch == SearchByDnaCall

SpecSearch == InitSearch /\ [][NextSearch]_vars

---------------------------------------------------------------------------
(* get_active_context and list_contexts applied to configurations *)

ContextEntries ==
    [a |-> ProjectContext(<<"lab">>, "Generic"),
     b |-> ProjectContext(<<"hub">>, "Hub"),
     default |-> ProjectContext(<<"pond">>, "Pond")]

\* Any configuration file: the active name need not be registered
ContextConfigs ==
    {Missing}
    \cup {Present(GlobalConfig([n \in names |-> ContextEntries[n]], active, "default")) :
             names \in SUBSET DOMAIN ContextEntries,
             active \in {NoName} \cup {SomeName(n) : n \in {"a", "b", "c", "default"}}}

GetActiveContextCall ==
    /\ nCalls = 0
    /\ nCalls' = 1
    /\ \E load_ok \in BOOLEAN :
          LET out == get_active_context(cfgFile, load_ok)
          IN /\ cfgFile' = out.file
             /\ last' = [kind |-> "get_active_context", load_ok |-> load_ok,
                         result |-> run_offloaded(Joined(out.r))]
    /\ UNCHANGED <<tagFile, snapshot, calls, lastCfgWriter, cfg0, tag0>>

ListContextsCall ==
    /\ nCalls = 0
    /\ nCalls' = 1
    /\ \E load_ok \in BOOLEAN :
          last' = [kind |-> "list_contexts", load_ok |-> load_ok,
                   result |-> run_offloaded(Joined(list_contexts(cfgFile, load_ok)))]
    /\ UNCHANGED <<cfgFile, tagFile, snapshot, calls, lastCfgWriter, cfg0, tag0>>

InitContexts ==
    /\ cfgFile \in ContextConfigs
    /\ tagFile = {}
    /\ snapshot = <<>>
    /\ calls = [c \in Slots |-> IdleCall]
    /\ lastCfgWriter = 0
    /\ cfg0 = cfgFile
    /\ tag0 = tagFile
    /\ last = NoCall
    /\ nCalls = 0

NextContexts == GetActiveContextCall \/ ListContextsCall

SpecContexts == InitContexts /\ [][NextContexts]_vars

---------------------------------------------------------------------------
(* Claims *)

ConfigWriters == {"switch_context", "register_context"}

\* C1: a switch_context call whose name is not registered in the configuration
\* it loaded fails with the context-not-found error and performs no save: the
\* step that decides it ends the call and leaves the persisted file as it was.
C1_SwitchUnknownFailsWithoutSave ==
    [][\A c \in Slots :
          (/\ calls[c].kind = "switch_context"
           /\ calls[c].pc = "loaded"
           /\ calls[c].params.name \notin DOMAIN calls[c].config.project_contexts
           /\ calls'[c] # calls[c])
          => /\ cfgFile' = cfgFile
             /\ calls'[c].pc = "done"
             /\ ~calls'[c].result.ok
             /\ calls'[c].result.code = -32004
             /\ calls'[c].result.body
                   = <<"Context '", calls[c].params.name, "' not found">>]_vars

C1_Witness ==
    \E c \in Slots :
        /\ calls[c].kind = "switch_context"
        /\ calls[c].pc = "done"
        /\ calls[c].result.code = -32004
        /\ cfgFile = cfg0

C3_OneWriterPerFile ==
    /\ Cardinality({c \in Slots : /\ calls[c].kind \in ConfigWriters
                                  /\ calls[c].pc \in {"loaded", "ready"}}) <= 1
    /\ Cardinality({c \in Slots : /\ calls[c].kind = "tag_projects"
                                  /\ calls[c].pc = "loaded"}) <= 1

\* C4: no update of the global configuration is lost: when two register_context
\* calls on distinct names have both returned success both names are registered,
\* and a successful register_context does not revert the active context set by a
\* switch_context that returned success.
C4_NoLostConfigUpdate ==
    \A c1, c2 \in Slots :
        (/\ c1 # c2
         /\ calls[c1].pc = "done" /\ calls[c1].result.ok
         /\ calls[c2].pc = "done" /\ calls[c2].result.ok
         /\ calls[c2].kind = "register_context"
         /\ \A d \in Slots \ {c1, c2} : calls[d].kind \notin ConfigWriters)
        => /\ (calls[c1].kind = "register_context"
                  /\ calls[c1].params.name # calls[c2].params.name)
              => {calls[c1].params.name, calls[c2].params.name}
                    \subseteq DOMAIN cfgFile.v.project_contexts
           /\ calls[c1].kind = "switch_context"
              => cfgFile.v.active_context = SomeName(calls[c1].params.name)

SingleTarget(params) ==
    /\ ~(params.harvest.some /\ params.harvest.v)
    /\ ~params.query.some /\ ~params.filter_tag.some
    /\ params.project.some /\ params.tag.some

\* C5: no update of the tag registry is lost: when two single-target
\* tag_projects calls (P1, T1) and (P2, T2) have both returned success, the
\* persisted registry holds T1 for P1, T2 for P2 and every tag it held before.
C5_NoLostTagUpdate ==
    \A c1, c2 \in Slots :
        (/\ c1 # c2
         /\ calls[c1].kind = "tag_projects" /\ calls[c1].pc = "done"
         /\ calls[c2].kind = "tag_projects" /\ calls[c2].pc = "done"
         /\ calls[c1].result.ok /\ calls[c2].result.ok
         /\ SingleTarget(calls[c1].params) /\ SingleTarget(calls[c2].params)
         /\ \A d \in Slots \ {c1, c2} : calls[d].kind # "tag_projects")
        => tag0 \cup {<<calls[c1].params.project.v, calls[c1].params.tag.v>>,
                      <<calls[c2].params.project.v, calls[c2].params.tag.v>>}
              \subseteq tagFile

\* C6: a tag_projects call with the parameters of the successful call served
\* just before it, over the same snapshot, leaves the persisted tag registry as
\* the first call left it.
C6_TagAssignmentIdempotent ==
    [][(/\ nCalls' = nCalls + 1
        /\ last.kind = "tag_projects"
        /\ last.result.ok
        /\ last'.params = last.params)
       => tagFile' = tagFile]_vars

C6_Witness ==
    /\ last.kind = "tag_projects"
    /\ last.repeat
    /\ last.result.ok
    /\ last.ws = "ok"
    /\ last.params.harvest = SomeBool(TRUE)
    /\ tagFile # tag0

\* C7: a list_contexts call that loads the configuration a successful
\* register_context(name, path) saved, no other save in between, returns an
\* entry with that name whose path is the canonicalized form of the given path.
C7_RegisterThenListRoundTrip ==
    [][\A c, r \in Slots :
          (/\ calls[c].kind = "list_contexts"
           /\ calls[c].pc = "start"
           /\ calls'[c].pc = "done"
           /\ calls[r].kind = "register_context"
           /\ calls[r].pc = "done"
           /\ calls[r].result.ok
           /\ lastCfgWriter = r)
          => /\ calls'[c].result.ok
             /\ \E e \in calls'[c].result.body :
                   /\ e.name = calls[r].params.name
                   /\ e.path = canonicalize(calls[r].params.path).path]_vars

C7_Witness ==
    \E c, r \in Slots :
        /\ calls[c].kind = "list_contexts" /\ calls[c].pc = "done"
        /\ calls[r].kind = "register_context" /\ calls[r].pc = "done"
        /\ calls[r].result.ok
        /\ lastCfgWriter = r
        /\ canonicalize(calls[r].params.path).path # calls[r].params.path
        /\ \E e \in calls[c].result.body : e.name = calls[r].params.name

\* C8: list_projects with no filter argument returns a success result holding
\* every project of the snapshot in snapshot order, and the empty list for an
\* empty registry (the workspace being discovered).
C8_NoFilterReturnsSnapshot ==
    (last.kind = "list_projects" /\ last.params = NoFilters /\ last.ws = "ok")
    => /\ last.result.ok
       /\ last.result.body = snapshot
       /\ (snapshot = <<>> => last.result.body = <<>>)

C8_Witness ==
    /\ last.kind = "list_projects"
    /\ last.params = NoFilters
    /\ last.result.ok
    /\ Len(last.result.body) = 2

HasTagIgnoringCase(p, t) ==
    \E i \in 1..Len(p.tags) : to_lowercase(p.tags[i]) = to_lowercase(t)

OnlyTag(t) == ListProjectsParams(None, Some(t), None, None, None)
OnlyStack(st) == ListProjectsParams(None, None, Some(st), None, None)

\* C9: in list_projects a tag t without a leading '#' gives the result of
\* '#' + t; the tag filter keeps the projects with a tag equal to '#' + t
\* ignoring case, the stack filter those whose stack contains the value ignoring
\* case; over {alpha: [#backend], go; beta: [#frontend], ts}, tag backend and
\* stack GO each return alpha alone.
C9_TagMarkerAndCaseInsensitiveFilters ==
    /\ (/\ last.kind = "list_projects" /\ last.ws = "ok"
        /\ last.params.tag.some /\ ~starts_with_hash(last.params.tag.v))
       => last.result
             = list_projects([last.params EXCEPT !.tag = Some(<<"#">> \o @.v)],
                             "ok", snapshot)
    /\ \A t \in {x.v : x \in TagInputs \ {None}} :
          (last.kind = "list_projects" /\ last.ws = "ok" /\ last.params = OnlyTag(t))
          => /\ last.result.ok
             /\ \A i \in 1..Len(snapshot) :
                   (\E j \in 1..Len(last.result.body) : last.result.body[j] = snapshot[i])
                   <=> HasTagIgnoringCase(snapshot[i],
                          IF starts_with_hash(t) THEN t ELSE <<"#">> \o t)
    /\ \A st \in {x.v : x \in StackInputs \ {None}} :
          (last.kind = "list_projects" /\ last.ws = "ok" /\ last.params = OnlyStack(st))
          => /\ last.result.ok
             /\ \A i \in 1..Len(snapshot) :
                   (\E j \in 1..Len(last.result.body) : last.result.body[j] = snapshot[i])
                   <=> contains(to_lowercase(snapshot[i].stack), to_lowercase(st))
    /\ (/\ last.kind = "list_projects" /\ last.ws = "ok"
        /\ snapshot = <<P_alpha, P_beta>>
        /\ last.params \in {OnlyTag(s_backend), OnlyStack(s_GO)})
       => last.result.body = <<P_alpha>>

C9_Witness ==
    /\ last.kind = "list_projects"
    /\ snapshot = <<P_alpha, P_beta>>
    /\ last.params = OnlyTag(s_backend)
    /\ last.result.ok
    /\ last.result.body = <<P_alpha>>

HarvestPairs(projects) ==
    {<<projects[i].name, to_lowercase(projects[i].stack)>> : i \in 1..Len(projects)}
    \cup UNION {{<<projects[i].submodules[j].name,
                   to_lowercase(projects[i].submodules[j].stack)>> :
                     j \in 1..Len(projects[i].submodules)} : i \in 1..Len(projects)}

RECURSIVE SubmoduleCount(_)
SubmoduleCount(projects) ==
    IF projects = <<>> THEN 0
    ELSE Len(Head(projects).submodules) + SubmoduleCount(Tail(projects))

\* C10: tag_projects(harvest: true) adds the lower-cased stack label under the
\* name of every project and of every submodule, saves the registry and reports
\* the number of projects plus the number of submodules; over one project with
\* stack rust and no submodules, from an empty registry, the registry maps that
\* project to {rust} and the count is 1.
C10_HarvestTagsEveryProjectAndSubmodule ==
    [][(/\ nCalls' = nCalls + 1
        /\ last'.kind = "tag_projects"
        /\ last'.params.harvest = SomeBool(TRUE)
        /\ last'.ws = "ok")
       => /\ tagFile' = tagFile \cup HarvestPairs(snapshot)
          /\ last'.result.ok
          /\ last'.result.body
                = <<"Tagged ", ToString(Len(snapshot) + SubmoduleCount(snapshot)),
                    " projects.">>
          /\ (snapshot = <<P_core>> /\ tagFile = {})
             => /\ tagFile' = {<<s_core, s_rust>>}
                /\ last'.result.body = <<"Tagged ", "1", " projects.">>]_vars

C10_Witness ==
    /\ last.kind = "tag_projects"
    /\ last.params.harvest = SomeBool(TRUE)
    /\ last.result.ok
    /\ \E i \in 1..Len(snapshot) : Len(snapshot[i].submodules) > 0
    /\ <<s_ui, s_ts>> \in tagFile

\* The codes toad_error_to_mcp gives the kinds that are no fault of the
\* caller's input: I/O, decode, workspace-not-found and the generic kinds
SystemErrorKinds == {"Io", "Serde", "WorkspaceNotFound", "Other", "Anyhow", "Config", "Git"}
CallerInputKinds == {"PathNotFound", "ContextNotFound"}
SystemErrorCodes == {toad_error_to_mcp(ToadError(k, <<"m">>)).code : k \in SystemErrorKinds}

\* C11: compare_projects with a source that names no project of the snapshot
\* fails with a caller-input-class error (not a code of the system kinds)
\* whose message names the source, whether or not the target exists, and the
\* comparison collaborator is not invoked.
C11_CompareMissingSourceIsCallerInputError ==
    (/\ last.kind = "compare_projects"
     /\ last.ws = "ok"
     /\ find_project(snapshot, last.params.source) = 0)
    => /\ ~last.result.ok
       /\ ~last.compared
       /\ contains(last.result.body, last.params.source)
       /\ last.result.code \notin SystemErrorCodes

\* The call answered last, and the one before it, returned a domain error
DomainFailure(awaited) == awaited.joined /\ ~awaited.v.ok
TwoDomainFailures ==
    /\ last.kind = "offload" /\ nCalls = 2
    /\ DomainFailure(last.awaited) /\ DomainFailure(last.prev)

\* C12: the error code separates caller-input failures from system failures:
\* the code of path-not-found or context-not-found never equals the code of an
\* internal-error-class kind, and each kind always maps to the same one code.
C12_ErrorCodeSeparatesCallerInputFromSystem ==
    TwoDomainFailures =>
        LET e1 == last.prev.v.err
            e2 == last.awaited.v.err
        IN /\ (e1.kind = e2.kind => last.prev_result.code = last.result.code)
           /\ (e1.kind \in CallerInputKinds /\ e2.kind \in SystemErrorKinds
                  => last.prev_result.code # last.result.code)

\* The error code and the channel (protocol error or tool result) of a response
CodeAndChannel(result) == <<result.ok, result.code>>

\* C13: a failure of the offload itself (the task did not join) reaches the
\* caller as an error no domain failure of a closure can be taken for: no
\* domain error has the code and channel of an execution failure.
C13_ExecutionFailureDistinctFromDomainFailure ==
    (/\ last.kind = "offload" /\ nCalls = 2
     /\ ~last.prev.joined
     /\ DomainFailure(last.awaited))
    => /\ ~last.prev_result.ok
       /\ CodeAndChannel(last.prev_result) # CodeAndChannel(last.result)

\* The tag filter of a call: the tag of get_git_status and list_branches, the
\* filter_tag of tag_projects
TagFilterOf(call) ==
    IF call.kind = "tag_projects" THEN call.params.filter_tag ELSE call.params.tag

\* The call's parameters with '#' put before its tag filter
WithMarker(call) ==
    IF call.kind = "tag_projects"
    THEN [call.params EXCEPT !.filter_tag = Some(<<"#">> \o @.v)]
    ELSE [call.params EXCEPT !.tag = Some(<<"#">> \o @.v)]

\* The projects the handler of the call selects for params
SelectedBy(call, params) ==
    IF call.kind = "get_git_status"
    THEN project_names(git_status_targets(snapshot, params))
    ELSE IF call.kind = "list_branches"
    THEN project_names(list_branches_targets(snapshot, params))
    ELSE [i \in 1..Len(filtered_targets(snapshot, params))
             |-> filtered_targets(snapshot, params)[i][1]]

\* C20: in every handler with a tag filter, a value without a leading '#'
\* selects the projects the same value with '#' prepended selects
\* (get_git_status, list_branches, filter_tag of tag_projects).
C20_TagFilterMarkerInjectedEverywhere ==
    (/\ last.kind \in {"get_git_status", "list_branches", "tag_projects"}
     /\ last.ws = "ok"
     /\ TagFilterOf(last).some
     /\ ~starts_with_hash(TagFilterOf(last).v))
    => last.targets = SelectedBy(last, WithMarker(last))

\* The positions of the responses written under identifier c
ResponsesOf(c) == {i \in 1..Len(last.responses) : last.responses[i].id = c}

\* A success payload, or an error with a protocol error code and a message
WellFormed(result) ==
    IF result.ok THEN result.code = 0 ELSE result.code < 0 /\ result.body # <<>>

AnsweredOnce(c) ==
    /\ calls[c].pc = "sent"
    /\ Cardinality(ResponsesOf(c)) = 1
    /\ \A i \in ResponsesOf(c) :
          /\ last.responses[i].result.ok = calls[c].result.ok
          /\ last.responses[i].result.code = calls[c].result.code
          /\ WellFormed(last.responses[i].result)

\* C14: every call the server accepted is eventually answered by exactly one
\* response under its own identifier, a success payload or a well-formed
\* error, on every path (domain error, failure inside the closure); no such
\* path ends the process; responses may be written in any order.
C14_EveryCallAnsweredExactlyOnce ==
    /\ \A c \in Slots : (calls[c].pc # "idle") ~> AnsweredOnce(c)
    /\ [](\A c \in Slots : Cardinality(ResponsesOf(c)) <= 1)
    /\ []((\E c \in Slots : calls[c].pc \in {"start", "done"}) => last.phase = "serving")

\* Both calls failed, one by a domain error and one inside the offload, and
\* the second was answered first
C14_Witness ==
    /\ last.kind = "process"
    /\ Len(last.responses) = 2
    /\ last.responses[1].id = 2 /\ last.responses[2].id = 1
    /\ calls[1].kind = "get_project_detail" /\ calls[1].result.body = ProjectNotFound(s_missing)
    /\ calls[2].kind = "list_projects" /\ calls[2].result.body = <<"task 7 panicked">>
    /\ AnsweredOnce(1) /\ AnsweredOnce(2)

C16_UnknownToolInvokesNoHandler ==
    [][\A c \in Slots :
          (/\ calls'[c] # calls[c]
           /\ calls'[c].method = "tools/call"
           /\ calls'[c].name \notin ToolNames(last.tool_router))
          => /\ calls'[c].kind = "none"
             /\ calls'[c].pc \in {"done", "sent"}
             /\ ~calls'[c].result.ok
             /\ calls'[c].result.body = <<"tool not found">>
             /\ cfgFile' = cfgFile
             /\ tagFile' = tagFile]_vars

\* An unknown name was called and answered after a switch_context had changed
\* the configuration
C16_Witness ==
    /\ last.kind = "process"
    /\ calls[1].kind = "switch_context" /\ calls[1].result.ok /\ cfgFile # cfg0
    /\ calls[2].name = "Switch_Context" /\ calls[2].pc = "sent"
    /\ ~calls[2].result.ok

\* The tool names a tools/list response carries
ListedNames(c) == {calls[c].result.body[i] : i \in 1..Len(calls[c].result.body)}

ListAnswered(c) == calls[c].method = "tools/list" /\ calls[c].pc \in {"done", "sent"}

\* C17: the catalog is fixed for the life of the process: every tools/list
\* after the handshake, whatever calls were served before it, returns the
\* same set of names, and the set holds the nine names the test looks for.
C17_CatalogFixedForProcessLifetime ==
    last.kind = "process" =>
        \A c \in Slots :
            ListAnswered(c) =>
                /\ last.phase \in {"serving", "exited"}
                /\ calls[c].result.ok
                /\ {"list_projects", "get_project_detail", "search_projects",
                    "get_ecosystem_summary", "get_ecosystem_status", "get_project_stats",
                    "get_atlas", "get_manifest", "get_project_context"}
                       \subseteq ListedNames(c)
                /\ \A d \in Slots : ListAnswered(d) => ListedNames(d) = ListedNames(c)

\* tools/list answered after a tag_projects call that wrote the tag registry
C17_Witness ==
    /\ last.kind = "process"
    /\ calls[1].kind = "tag_projects" /\ calls[1].pc = "sent" /\ tagFile # tag0
    /\ calls[2].method = "tools/list" /\ calls[2].pc = "sent"
    /\ Cardinality(ListedNames(2)) = 23

\* C18: a call is served only if workspace discovery succeeded at startup;
\* when it fails the process prints a diagnostic and exits with a non-zero
\* status before the transport is opened: no request is read or answered.
C18_ServesOnlyAfterDiscovery ==
    last.kind = "process" =>
        /\ (\/ nCalls > 0
            \/ Len(last.responses) > 0
            \/ \E c \in Slots : calls[c].pc # "idle"
            \/ last.transport # "unopened")
               => last.discovered = "ok"
        /\ last.discovered = "missing"
               => /\ last.phase = "exited"
                  /\ last.exit_code # 0
                  /\ last.diagnostic
                  /\ last.transport = "unopened"
                  /\ nCalls = 0
                  /\ Len(last.responses) = 0

\* Discovery failed at startup and the process has exited with status 1
C18_Witness ==
    /\ last.kind = "process"
    /\ last.discovered = "missing"
    /\ last.phase = "exited" /\ last.exit_code = 1 /\ last.diagnostic

\* C19: the read-only handlers leave the persisted global configuration and
\* the persisted tag registry as they were on every path, success or error,
\* and leave nothing in the process for the next call.
C19_ReadOnlyHandlersChangeNothing ==
    [][\A c \in Slots :
          (/\ last.kind = "process"
           /\ calls[c].kind \in ReadOnlyTools
           /\ calls[c].pc = "start"
           /\ calls'[c].pc = "done")
          => /\ cfgFile' = cfgFile
             /\ tagFile' = tagFile
             /\ last' = last]_vars

\* get_active_context succeeded with no configuration file on disk, and
\* get_project_detail failed: both files are as they were
C19_Witness ==
    /\ last.kind = "process"
    /\ calls[1].kind = "get_active_context" /\ calls[1].pc = "sent" /\ calls[1].result.ok
    /\ calls[2].kind = "get_project_detail" /\ calls[2].pc = "done" /\ ~calls[2].result.ok
    /\ cfgFile = Missing /\ cfgFile = cfg0 /\ tagFile = tag0

\* The name under which filtered mode tags: params.tag, else params.project
AssignedTag(params) == IF params.tag.some THEN params.tag.v ELSE params.project.v

\* The (name, tag) pairs a tag_projects call is to add, by its mode
ExpectedAdds(params, projects) ==
    IF params.harvest = SomeBool(TRUE) THEN HarvestPairs(projects)
    ELSE IF params.query.some \/ params.filter_tag.some
    THEN {<<projects[i].name, AssignedTag(params)>> :
             i \in {k \in 1..Len(projects) :
                      /\ params.query.some
                            => contains(to_lowercase(projects[k].name),
                                        to_lowercase(params.query.v))
                      /\ params.filter_tag.some
                            => HasTagIgnoringCase(projects[k],
                                   IF starts_with_hash(params.filter_tag.v)
                                   THEN params.filter_tag.v
                                   ELSE <<"#">> \o params.filter_tag.v)}}
    ELSE {<<params.project.v, params.tag.v>>}

ReportsTagged(result) == result.ok /\ result.body[1] = "Tagged "

\* C21: a tag_projects call that reports tagged projects persists the registry
\* it loaded with every add_tag of the call in it (one save, after the adds); a
\* call that ends with an error or with the no-match result saves nothing.
C21_TagRegistrySavedOnceAfterAdds ==
    [][(/\ nCalls' = nCalls + 1
        /\ last'.kind = "tag_projects")
       => IF ReportsTagged(last'.result)
          THEN tagFile' = tagFile \cup ExpectedAdds(last'.params, snapshot)
          ELSE tagFile' = tagFile]_vars

\* A filtered call tagged a project after a call that saved nothing new
C21_Witness ==
    /\ last.kind = "tag_projects"
    /\ nCalls = 2
    /\ ReportsTagged(last.result)
    /\ last.params.harvest = NoBool
    /\ last.params.filter_tag.some
    /\ tagFile # tag0
    /\ tagFile = tag0 \cup ExpectedAdds(last.params, snapshot)

\* The mode of a tag_projects call: harvest first, then the filters, then the
\* single target
ModeOf(params) ==
    IF params.harvest = SomeBool(TRUE) THEN "harvest"
    ELSE IF params.query.some \/ params.filter_tag.some THEN "filtered"
    ELSE IF params.project.some THEN "single"
    ELSE "none"

\* C22: the modes of tag_projects exclude each other: a call has the effect of
\* one mode only, harvest = true first, else filtered when query or filter_tag
\* is given, else single-target when project is given; in harvest mode the
\* other arguments do not reach the registry, and single-target mode adds the
\* one (project, tag) pair and nothing else.
C22_TagModesMutuallyExclusive ==
    [][(/\ nCalls' = nCalls + 1
        /\ last'.kind = "tag_projects"
        /\ last'.ws = "ok")
       => LET params == last'.params
          IN /\ ModeOf(params) = "harvest"
                   => tagFile' = tagFile \cup HarvestPairs(snapshot)
             /\ ModeOf(params) = "filtered"
                   => /\ tagFile \subseteq tagFile'
                      /\ \A pair \in tagFile' \ tagFile :
                            /\ pair[2] = AssignedTag(params)
                            /\ \E i \in 1..Len(snapshot) :
                                  /\ snapshot[i].name = pair[1]
                                  /\ filtered_match(snapshot[i], params)
             /\ ModeOf(params) = "single"
                   => IF params.tag.some
                      THEN /\ last'.result.ok
                           /\ tagFile' = tagFile \cup {<<params.project.v, params.tag.v>>}
                      ELSE ~last'.result.ok /\ tagFile' = tagFile
             /\ ModeOf(params) = "none"
                   => ~last'.result.ok /\ tagFile' = tagFile]_vars

\* A harvest call that also named a project, a tag, a query and a filter_tag
\* left none of them in the registry
C22_Witness ==
    /\ last.kind = "tag_projects"
    /\ last.ws = "ok"
    /\ last.params = TagParams(Some(s_alpha), Some(s_x), Some(<<"A">>), Some(s_backend),
                               SomeBool(TRUE))
    /\ last.result.ok
    /\ snapshot = <<P_beta, P_alpha>>
    /\ tagFile # tag0
    /\ \A pair \in tagFile : pair[2] # s_x

\* The name holds the text somewhere, letter case aside
NameHolds(name, text) ==
    \E i \in 1..(Len(name) + 1) : \E j \in (i - 1)..Len(name) :
        to_lowercase(SubSeq(name, i, j)) = to_lowercase(text)

\* The project carries the tag, written with or without its marker
Carries(p, t) ==
    HasTagIgnoringCase(p, IF Len(t) > 0 /\ t[1] = "#" THEN t ELSE <<"#">> \o t)

\* The names of the projects a filtered call is meant to tag
FilteredNames(params, projects) ==
    {projects[i].name : i \in
        {k \in 1..Len(projects) :
            /\ params.query.some => NameHolds(projects[k].name, params.query.v)
            /\ params.filter_tag.some => Carries(projects[k], params.filter_tag.v)}}

FilterFields == {"query", "tag", "stack", "activity", "vcs_status"}

\* The call with one filter taken away, and with one filter only
Without(params, f) == [params EXCEPT ![f] = None]
Only(params, f) == [NoFilters EXCEPT ![f] = params[f]]

Elems(seq) == {seq[i] : i \in 1..Len(seq)}

\* The projects list_projects returns for the parameters over the snapshot
Listed(params) == Elems(list_projects(params, "ok", snapshot).body)

\* sub holds elements of seq only, each once, in the order they have in seq
IsSubsequence(sub, seq) ==
    \E pos \in [1..Len(sub) -> 1..Len(seq)] :
        /\ \A i \in 1..Len(sub) : sub[i] = seq[pos[i]]
        /\ \A i, j \in 1..Len(sub) : i < j => pos[i] < pos[j]

\* C24: list_projects returns the subsequence of the snapshot, in snapshot
\* order, of exactly the projects that pass every filter given: a project is
\* in the result iff it is in the result of each given filter alone, and
\* taking a filter away never loses a project (adding one never adds one).
C24_ListProjectsIsConjunctionOfFilters ==
    (last.kind = "list_projects" /\ last.ws = "ok")
        => LET params == last.params
               given  == {f \in FilterFields : params[f].some}
           IN /\ last.result.ok
              /\ IsSubsequence(last.result.body, snapshot)
              /\ \A p \in Elems(snapshot) :
                    p \in Elems(last.result.body)
                        <=> \A f \in given : p \in Listed(Only(params, f))
              /\ \A f \in given :
                    Elems(last.result.body) \subseteq Listed(Without(params, f))

\* Two filters were given, one of them alone keeps both projects of the
\* snapshot, and the call returned the one project that passes both
C24_Witness ==
    /\ last.kind = "list_projects"
    /\ last.ws = "ok"
    /\ Len(snapshot) = 2
    /\ Len(last.result.body) = 1
    /\ last.result.body[1] = snapshot[2]
    /\ Cardinality({f \in FilterFields : last.params[f].some}) = 2
    /\ \E f \in FilterFields :
          /\ last.params[f].some
          /\ Listed(Only(last.params, f)) = Elems(snapshot)

\* C25: a list_projects filter given as the empty string is a no-op: for each
\* of query, tag, stack, activity and vcs_status the call returns what the
\* same call without that filter returns.
C25_EmptyFilterIsNoOp ==
    (last.kind = "list_projects" /\ last.ws = "ok")
        => \A f \in FilterFields :
              last.params[f] = Some(<<>>)
                  => last.result = list_projects(Without(last.params, f), "ok", snapshot)

\* The same statement for the four substring filters, which does hold
EmptySubstringFilterIsNoOp ==
    (last.kind = "list_projects" /\ last.ws = "ok")
        => \A f \in FilterFields \ {"tag"} :
              last.params[f] = Some(<<>>)
                  => last.result = list_projects(Without(last.params, f), "ok", snapshot)

\* The project's DNA holds the text in a role, a capability or a structural
\* pattern, letter case aside
DnaHolds(p, text) ==
    LET dna == project_dna(p)
        entries == Elems(dna.roles) \cup Elems(dna.capabilities)
                       \cup Elems(dna.structural_patterns)
    IN \E e \in entries : NameHolds(e, text)

\* C26: search_projects_by_dna(query, tag) returns exactly the projects whose
\* DNA holds query in a role, a capability or a structural pattern (letter
\* case aside) and which, when tag is given, carry the tag; a project without
\* the tag is never returned.
C26_DnaSearchHonoursTagFilter ==
    (/\ last.kind = "search_projects_by_dna"
     /\ last.ws = "ok"
     /\ last.serde_ok)
    => LET keep(p) == /\ DnaHolds(p, last.params.query)
                      /\ last.params.tag.some => Carries(p, last.params.tag.v)
       IN last.result = Success(Report("match:", SelectSeq(snapshot, keep)))

\* Without a tag the search returns exactly the projects whose DNA holds the
\* query
DnaSearchWithoutTag ==
    (/\ last.kind = "search_projects_by_dna"
     /\ last.ws = "ok"
     /\ last.serde_ok
     /\ ~last.params.tag.some)
    => LET keep(p) == DnaHolds(p, last.params.query)
       IN last.result = Success(Report("match:", SelectSeq(snapshot, keep)))

\* C27: a successful switch_context(name) changes only the active context:
\* the configuration it prepares from the one it loaded has name active and
\* the loaded contexts (names, paths, kinds) and budget, and that prepared
\* configuration is what its save persists.
C27_SwitchChangesOnlyActiveContext ==
    [][\A c \in Slots :
          /\ (/\ calls[c].kind = "switch_context"
              /\ calls[c].pc = "loaded"
              /\ calls'[c].pc = "ready")
             => /\ calls'[c].config.active_context = SomeName(calls[c].params.name)
                /\ calls'[c].config.project_contexts = calls[c].config.project_contexts
                /\ calls'[c].config.budget = calls[c].config.budget
          /\ (/\ calls[c].kind = "switch_context"
              /\ calls[c].pc = "ready"
              /\ calls'[c] # calls[c])
             => /\ calls'[c].result.ok
                /\ cfgFile' = Present(calls[c].config)
          /\ (/\ calls[c].kind = "switch_context"
              /\ calls[c].pc = "ready"
              /\ calls'[c].pc = "ready")
             => calls'[c].config = calls[c].config]_vars

\* A switch to b succeeded on the configuration with two contexts, none active
\* and a custom budget: b is active and the rest is as it was
C27_Witness ==
    \E c \in Slots :
        /\ calls[c].kind = "switch_context"
        /\ calls[c].pc = "done"
        /\ calls[c].result.ok
        /\ calls[c].params.name = "b"
        /\ lastCfgWriter = c
        /\ cfg0.exists /\ cfg0.v.budget = "custom"
        /\ cfgFile.v.active_context = SomeName("b")
        /\ cfgFile.v.project_contexts = cfg0.v.project_contexts
        /\ cfgFile.v.budget = "custom"

\* The configuration next has the entries and the active context of prev and
\* one more entry, under name
AddsOneEntry(prev, next, name) ==
    /\ name \notin DOMAIN prev.project_contexts
    /\ DOMAIN next.project_contexts = DOMAIN prev.project_contexts \cup {name}
    /\ \A n \in DOMAIN prev.project_contexts :
          next.project_contexts[n] = prev.project_contexts[n]
    /\ next.active_context = prev.active_context

\* C28: register_context never overwrites or activates: a call on a name the
\* configuration already holds fails and leaves the persisted configuration as
\* it was, and the save of a successful call adds exactly one entry to the
\* persisted configuration, leaving its active context and every entry it
\* held unchanged.
C28_RegisterNeverOverwritesOrActivates ==
    [][\A c \in Slots :
          /\ (/\ calls[c].kind = "register_context"
              /\ calls[c].pc = "loaded"
              /\ calls[c].params.name \in DOMAIN calls[c].config.project_contexts
              /\ calls'[c] # calls[c])
             => /\ calls'[c].pc = "done"
                /\ ~calls'[c].result.ok
                /\ cfgFile' = cfgFile
          /\ (/\ calls[c].kind = "register_context"
              /\ calls[c].pc = "ready"
              /\ calls'[c] # calls[c])
             => /\ calls'[c].result.ok
                /\ cfgFile'.exists
                /\ AddsOneEntry(load_config(cfgFile), cfgFile'.v, calls[c].params.name)]_vars

\* The same statement against the configuration the call loaded, which holds:
\* what the call prepares is the loaded configuration plus the one entry, and
\* its save writes what it prepared
RegisterAddsOneEntryToLoaded ==
    [][\A c \in Slots :
          /\ (/\ calls[c].kind = "register_context"
              /\ calls[c].pc = "loaded"
              /\ calls'[c].pc = "ready")
             => AddsOneEntry(calls[c].config, calls'[c].config, calls[c].params.name)
          /\ (/\ calls[c].kind = "register_context"
              /\ calls[c].pc = "ready"
              /\ calls'[c] # calls[c])
             => cfgFile' = Present(calls[c].config)]_vars

\* The persisted active context is unset or names a context registered in the
\* same persisted configuration
ActiveIsRegistered(file) ==
    LET config == load_config(file)
    IN config.active_context.some
          => config.active_context.v \in DOMAIN config.project_contexts

\* C29: over every interleaving of switch_context and register_context calls,
\* from a configuration whose active context is unset or registered, the
\* persisted active context stays unset or the name of a context registered
\* in the same persisted configuration, and no step of switch_context removes
\* a registered context from the persisted configuration.
C29_ActiveRegisteredAndSwitchKeepsContexts ==
    [][/\ ActiveIsRegistered(cfgFile) => ActiveIsRegistered(cfgFile')
       /\ \A c \in Slots :
             (/\ calls[c].kind = "switch_context"
              /\ calls'[c] # calls[c])
             => DOMAIN load_config(cfgFile).project_contexts
                   \subseteq DOMAIN load_config(cfgFile').project_contexts]_vars

\* The first half alone
ActiveAlwaysRegistered == ActiveIsRegistered(cfgFile)

\* The entries of a list_contexts response: name, path, type and flag each
ListedEntries(body) ==
    {[name |-> body[4 * k - 3], active |-> body[4 * k] = "active"] :
        k \in 1..(Len(body) \div 4)}

\* C30: for every configuration, list_contexts returns one entry per
\* registered context, at most one of them flagged active and exactly one
\* when the active context names a registered context; get_active_context
\* reports the name 'default' when no active context is set, the name of the
\* entry list_contexts flags active when there is one, and a null path and
\* type, not an error, when the active name is not registered.
C30_ContextListingAndActiveAgree ==
    LET config  == load_config(cfgFile)
        names   == DOMAIN config.project_contexts
        listed  == ListedEntries(run_offloaded(Joined(list_contexts(cfgFile, TRUE))).body)
        flagged == {e \in listed : e.active}
    IN /\ (last.kind = "list_contexts" /\ last.load_ok)
          => LET entries == ListedEntries(last.result.body)
             IN /\ last.result.ok
                /\ Len(last.result.body) = 4 * Cardinality(names)
                /\ {e.name : e \in entries} = names
                /\ Cardinality({e \in entries : e.active}) <= 1
                /\ (config.active_context.some /\ config.active_context.v \in names)
                      => {e.name : e \in {x \in entries : x.active}}
                            = {config.active_context.v}
       /\ (last.kind = "get_active_context" /\ last.load_ok)
          => /\ last.result.ok
             /\ ~config.active_context.some => last.result.body[2] = "default"
             /\ \A e \in flagged : last.result.body[2] = e.name
             /\ last.result.body[2] \notin names
                   => /\ last.result.body[4] = "null"
                      /\ last.result.body[6] = "null"

\* get_active_context answered with a null path and type for an active name
\* that is set and not registered, beside two registered contexts
C30_Witness ==
    /\ last.kind = "get_active_context"
    /\ last.load_ok
    /\ cfgFile.exists
    /\ cfgFile.v.active_context = SomeName("c")
    /\ Cardinality(DOMAIN cfgFile.v.project_contexts) = 2
    /\ last.result = Success(<<"name:", "c", "path:", "null", "type:", "null">>)

====
